---- MODULE Spec2Model ----
(***************************************************************************)
(* Lighting / light-space core of the CGI-TPC3 scene viewer.               *)
(*                                                                         *)
(* Reals (JS numbers, GLSL mediump floats) are fixed-point integers with   *)
(* Unit = 1.0; every product is rescaled by Unit and truncated toward 0.   *)
(* Colour channels of lights and materials stay in the panel's 0..255      *)
(* range, shaded colours are fixed-point (Unit = 1.0).                     *)
(***************************************************************************)
EXTENDS Integers, Sequences, FiniteSets, TLC

VARIABLES
    lights,        \* app: the lights array (index 0..MAX_LIGHTS-1)
    options,       \* app: options.lightCoords
    camera,        \* app: camera.eye / camera.at / camera.up
    program,       \* app: the `program` variable ("phong" | "gouraud")
    glProgram,     \* GL: the program made current by the latest gl.useProgram
    uniforms,      \* GL: uniform storage of each program
    nEdits,        \* number of panel edits made so far (bounded)
    pc,            \* shader pipeline position: "idle" | "vertex" | "fragment"
    shader,        \* which shader pair is being run
    u,             \* uniforms seen by the running shader pair
    sample,        \* eye-space position, unit normal and material of the sample
    varyings,      \* v_position, v_normal, v_color written by the vertex stage
    fragColor,     \* colour written by the fragment stage (rgb + alpha)
    undef,         \* outcome this build gives to GLSL's undefined results
    mProjection,   \* the projection matrix, by the values it was built from
    mView,         \* the view matrix (<<>> before the first updateView)
    matrices,      \* per program: the projection and model-view uniforms
    panel,         \* the controllers setupGUI has added to the panel
    thrown,        \* the functions an uncaught TypeError has ended so far
    initialCamera, \* the snapshot of eye, at and up taken at startup
    built,         \* the programs buildProgramFromSources has returned
    disc,          \* the spotlight circles drawn by the latest frame
    console,       \* the messages setup has written with console.error
    mouse,         \* isMouseDown, lastMouseX, lastMouseY; the latest mouse event
    angles,        \* yaw and pitch, in thousandths of a radian
    input,         \* keys held down; camera arrays the panel sliders still write to
    frame          \* the frame loop: position, pending callbacks, lastFrameTime set

vars == <<lights, options, camera, program, glProgram, uniforms, nEdits,
          pc, shader, u, sample, varyings, fragColor, undef,
          mProjection, mView, matrices, panel, thrown,
          initialCamera, built, disc, console, mouse, angles, input, frame>>

appVars    == <<lights, options, camera, program, glProgram, uniforms, nEdits>>
shaderVars == <<pc, shader, u, sample, varyings, fragColor, undef>>
frameVars  == <<mProjection, mView, matrices, panel, thrown,
                initialCamera, built, disc, console, mouse, angles, input, frame>>

----------------------------------------------------------------------------
(* Fixed-point arithmetic                                                  *)

Unit == 100

\* division truncating toward zero (TLA+ \div floors)
Div(a, b) == IF a >= 0 THEN a \div b ELSE 0 - ((0 - a) \div b)

Mul(a, b) == Div(a * b, Unit)

Max(a, b) == IF a < b THEN b ELSE a

Min(a, b) == IF b < a THEN b ELSE a

RECURSIVE SqrtSearch(_, _, _)
SqrtSearch(n, lo, hi) ==
    IF lo >= hi THEN lo
    ELSE LET mid == (lo + hi + 1) \div 2
         IN  IF mid * mid <= n THEN SqrtSearch(n, mid, hi)
                               ELSE SqrtSearch(n, lo, mid - 1)

\* floor of the square root of n (0 <= n < 2^30)
ISqrt(n) == SqrtSearch(n, 0, 32767)

Vec3(x, y, z) == <<x, y, z>>

Zero3 == <<0, 0, 0>>

Xyz(v) == <<v[1], v[2], v[3]>>

Neg(v) == <<0 - v[1], 0 - v[2], 0 - v[3]>>

Add3(a, b) == <<a[1] + b[1], a[2] + b[2], a[3] + b[3]>>

Sub3(a, b) == <<a[1] - b[1], a[2] - b[2], a[3] - b[3]>>

Scale3(s, v) == <<Mul(s, v[1]), Mul(s, v[2]), Mul(s, v[3])>>

Dot(a, b) == Div(a[1] * b[1] + a[2] * b[2] + a[3] * b[3], Unit)

Cross(a, b) == <<Mul(a[2], b[3]) - Mul(a[3], b[2]),
                 Mul(a[3], b[1]) - Mul(a[1], b[3]),
                 Mul(a[1], b[2]) - Mul(a[2], b[1])>>

Length(v) == ISqrt(v[1] * v[1] + v[2] * v[2] + v[3] * v[3])

\* GLSL normalize(); the result for a zero-length vector is undefined
\* (GLSL ES 3.00, 8.4), the build's outcome is undef.norm0
DivideBy(v, len) ==
    IF len = 0 THEN undef.norm0
    ELSE <<Div(v[1] * Unit, len), Div(v[2] * Unit, len), Div(v[3] * Unit, len)>>

Normalize(v) == DivideBy(v, Length(v))

RECURSIVE PowIter(_, _)
PowIter(x, n) ==
    IF n = 0 THEN Unit
    ELSE IF n % 2 = 0
         THEN LET h == PowIter(x, n \div 2) IN Mul(h, h)
         ELSE Mul(x, PowIter(x, n - 1))

\* GLSL pow(x, y) for x >= 0 and a whole exponent y >= 0;
\* pow(0, 0) is undefined (GLSL ES 3.00, 8.2), the build's outcome is undef.pow00
Pow(x, n) == IF x = 0 /\ n = 0 THEN undef.pow00 ELSE PowIter(x, n)

\* GLSL reflect(I, N) = I - 2 * dot(N, I) * N
Reflect(I, N) == Sub3(I, Scale3(2 * Dot(N, I), N))

\* variant: no clamp
Clamp01_Identity(c) == c

\* GLSL clamp(x, 0.0, 1.0) = min(max(x, 0.0), 1.0), component-wise
Clamp01(c) == <<Min(Max(c[1], 0), Unit), Min(Max(c[2], 0), Unit), Min(Max(c[3], 0), Unit)>>

\* cos(radians(deg)) for deg (fixed-point degrees) in 0..180 degrees:
\* Taylor series evaluated at scale 10^3, rounded to Unit

CosDeg(deg) ==
    LET x   == Div(deg * 17453, 1000 * Unit)   \* radians * 10^3 (pi/180 = 0.017453)
        x2  == Div(x * x, 1000)
        x4  == Div(x2 * x2, 1000)
        x6  == Div(x4 * x2, 1000)
        x8  == Div(x6 * x2, 1000)
        x10 == Div(x8 * x2, 1000)
        c   == 1000 - Div(x2, 2) + Div(x4, 24) - Div(x6, 720)
                        + Div(x8, 40320) - Div(x10, 3628800)
    IN  Div(c * Unit + Div(1000, 2), 1000)


----------------------------------------------------------------------------
(* The Light Model: the four copies of phongLighting                       *)
(*                                                                         *)
(* A light slot l is a record of the u_light_* uniforms at one index:      *)
(* enabled, type, position (xyz), w, axis, aperture (degrees), cutoff,     *)
(* ambient, diffuse, specular (0..255 per channel).  A material is         *)
(* [Ka, Kd, Ks, shininess].                                                *)

ColorScale == 255

\* (K / 255.0) * (I / 255.0), component-wise
ColorTerm(K, I) ==
    <<Div(K[1] * I[1] * Unit, ColorScale * ColorScale),
      Div(K[2] * I[2] * Unit, ColorScale * ColorScale),
      Div(K[3] * I[3] * Unit, ColorScale * ColorScale)>>

(* ---- gouraud.vert ---- *)

MAX_LIGHTS_gouraud_vert == 3

\* variant: a cone that also opens behind the light
SpotAttenuation_gouraud_vert_TwoSided(l, position) ==
    LET L == IF l.type = 1 THEN Normalize(Neg(Xyz(l.position)))
                           ELSE Normalize(Sub3(Xyz(l.position), position))
    IN  IF l.type = 2
        THEN LET lightDir    == Normalize(Neg(l.axis))
                 cosAlpha    == Dot(L, lightDir)
                 absAlpha    == IF cosAlpha < 0 THEN 0 - cosAlpha ELSE cosAlpha
                 cosAperture == CosDeg(Div(l.aperture, 2))
             IN  IF absAlpha >= cosAperture
                 THEN Pow(absAlpha, l.cutoff)
                 ELSE 0
        ELSE Unit

SpotAttenuation_gouraud_vert(l, position) ==
    LET L == IF l.type = 1 THEN Normalize(Neg(Xyz(l.position)))
                           ELSE Normalize(Sub3(Xyz(l.position), position))
    IN  IF l.type = 2
        THEN LET lightDir    == Normalize(Neg(l.axis))
                 cosAlpha    == Dot(L, lightDir)
                 cosAperture == CosDeg(Div(l.aperture, 2))
             IN  IF cosAlpha >= cosAperture
                 THEN Pow(Max(0, cosAlpha), l.cutoff)
                 ELSE 0
        ELSE Unit

\* what one pass of the loop body adds to `color` for an enabled light
\* variant: per-vertex lighting that leaves the specular term out
Contribution_gouraud_vert_NoSpecular(l, position, normal, material) ==
    LET L == IF l.type = 1 THEN Normalize(Neg(Xyz(l.position)))
                           ELSE Normalize(Sub3(Xyz(l.position), position))
        spotAttenuation == SpotAttenuation_gouraud_vert(l, position)
    IN  IF spotAttenuation > 0
        THEN LET ambient == ColorTerm(material.Ka, l.ambient)
                 NdotL   == Max(0, Dot(normal, L))
                 diffuse == Scale3(NdotL, ColorTerm(material.Kd, l.diffuse))
             IN  Scale3(spotAttenuation, Add3(ambient, diffuse))
        ELSE Zero3

Contribution_gouraud_vert(l, position, normal, material) ==
    LET L == IF l.type = 1 THEN Normalize(Neg(Xyz(l.position)))
                           ELSE Normalize(Sub3(Xyz(l.position), position))
        spotAttenuation == SpotAttenuation_gouraud_vert(l, position)
    IN  IF spotAttenuation > 0
        THEN LET ambient  == ColorTerm(material.Ka, l.ambient)
                 NdotL    == Max(0, Dot(normal, L))
                 diffuse  == Scale3(NdotL, ColorTerm(material.Kd, l.diffuse))
                 specular ==
                     IF NdotL > 0
                     THEN LET V     == Normalize(Neg(position))
                              R     == Reflect(Neg(L), normal)
                              RdotV == Max(0, Dot(R, V))
                          IN  Scale3(Pow(RdotV, material.shininess),
                                     ColorTerm(material.Ks, l.specular))
                     ELSE Zero3
             IN  Scale3(spotAttenuation, Add3(Add3(ambient, diffuse), specular))
        ELSE Zero3

\* one iteration of the light loop, past the `break` test
LoopBody_gouraud_vert(un, position, normal, material, i, color) ==
    IF un.light[i].enabled = 0
    THEN color                                                \* continue
    ELSE Add3(color, Contribution_gouraud_vert(un.light[i], position, normal, material))

RECURSIVE Loop_gouraud_vert(_, _, _, _, _, _)
Loop_gouraud_vert(un, position, normal, material, i, color) ==
    IF i >= MAX_LIGHTS_gouraud_vert THEN color
    ELSE IF i >= un.n_lights THEN color                       \* break
    ELSE Loop_gouraud_vert(un, position, normal, material, i + 1,
             LoopBody_gouraud_vert(un, position, normal, material, i, color))

phongLighting_gouraud_vert(un, position, normal, material) ==
    Loop_gouraud_vert(un, position, normal, material, 0, Zero3)

(* ---- phong.frag ---- *)

MAX_LIGHTS_phong_frag == 8

\* variant: a point exactly on the cone's edge is outside
SpotAttenuation_phong_frag_StrictCone(l, position) ==
    LET L == IF l.type = 1 THEN Normalize(Neg(Xyz(l.position)))
                           ELSE Normalize(Sub3(Xyz(l.position), position))
    IN  IF l.type = 2
        THEN LET lightDir    == Normalize(Neg(l.axis))
                 cosAlpha    == Dot(L, lightDir)
                 cosAperture == CosDeg(Div(l.aperture, 2))
             IN  IF cosAlpha > cosAperture
                 THEN Pow(Max(0, cosAlpha), l.cutoff)
                 ELSE 0
        ELSE Unit

SpotAttenuation_phong_frag(l, position) ==
    LET L == IF l.type = 1 THEN Normalize(Neg(Xyz(l.position)))
                           ELSE Normalize(Sub3(Xyz(l.position), position))
    IN  IF l.type = 2
        THEN LET lightDir    == Normalize(Neg(l.axis))
                 cosAlpha    == Dot(L, lightDir)
                 cosAperture == CosDeg(Div(l.aperture, 2))
             IN  IF cosAlpha >= cosAperture
                 THEN Pow(Max(0, cosAlpha), l.cutoff)
                 ELSE 0
        ELSE Unit

\* variant: the direction to the light taken from the position for every kind
Contribution_phong_frag_FromPosition(l, position, normal, material) ==
    LET L == Normalize(Sub3(Xyz(l.position), position))
        spotAttenuation == SpotAttenuation_phong_frag(l, position)
    IN  IF spotAttenuation > 0
        THEN LET ambient  == ColorTerm(material.Ka, l.ambient)
                 NdotL    == Max(0, Dot(normal, L))
                 diffuse  == Scale3(NdotL, ColorTerm(material.Kd, l.diffuse))
                 specular ==
                     IF NdotL > 0
                     THEN LET V     == Normalize(Neg(position))
                              R     == Reflect(Neg(L), normal)
                              RdotV == Max(0, Dot(R, V))
                          IN  Scale3(Pow(RdotV, material.shininess),
                                     ColorTerm(material.Ks, l.specular))
                     ELSE Zero3
             IN  Scale3(spotAttenuation, Add3(Add3(ambient, diffuse), specular))
        ELSE Zero3

Contribution_phong_frag(l, position, normal, material) ==
    LET L == IF l.type = 1 THEN Normalize(Neg(Xyz(l.position)))
                           ELSE Normalize(Sub3(Xyz(l.position), position))
        spotAttenuation == SpotAttenuation_phong_frag(l, position)
    IN  IF spotAttenuation > 0
        THEN LET ambient  == ColorTerm(material.Ka, l.ambient)
                 NdotL    == Max(0, Dot(normal, L))
                 diffuse  == Scale3(NdotL, ColorTerm(material.Kd, l.diffuse))
                 specular ==
                     IF NdotL > 0
                     THEN LET V     == Normalize(Neg(position))
                              R     == Reflect(Neg(L), normal)
                              RdotV == Max(0, Dot(R, V))
                          IN  Scale3(Pow(RdotV, material.shininess),
                                     ColorTerm(material.Ks, l.specular))
                     ELSE Zero3
             IN  Scale3(spotAttenuation, Add3(Add3(ambient, diffuse), specular))
        ELSE Zero3

\* variant: the loop body without the test of u_light_enabled[i]
LoopBody_phong_frag_IgnoresEnabled(un, position, normal, material, i, color) ==
    Add3(color, Contribution_phong_frag(un.light[i], position, normal, material))

\* one iteration of the light loop, past the `break` test
LoopBody_phong_frag(un, position, normal, material, i, color) ==
    IF un.light[i].enabled = 0
    THEN color                                                \* continue
    ELSE Add3(color, Contribution_phong_frag(un.light[i], position, normal, material))

RECURSIVE Loop_phong_frag(_, _, _, _, _, _)
Loop_phong_frag(un, position, normal, material, i, color) ==
    IF i >= MAX_LIGHTS_phong_frag THEN color
    ELSE IF i >= un.n_lights THEN color                       \* break
    ELSE Loop_phong_frag(un, position, normal, material, i + 1,
             LoopBody_phong_frag(un, position, normal, material, i, color))

phongLighting_phong_frag(un, position, normal, material) ==
    Loop_phong_frag(un, position, normal, material, 0, Zero3)


(* ---- shader.vert (combined program) ---- *)

MAX_LIGHTS_shader_vert == 8

SpotAttenuation_shader_vert(l, position) ==
    LET L == IF l.type = 1 THEN Normalize(Neg(Xyz(l.position)))
                           ELSE Normalize(Sub3(Xyz(l.position), position))
    IN  IF l.type = 2
        THEN LET lightDir    == Normalize(Neg(l.axis))
                 cosAlpha    == Dot(L, lightDir)
                 cosAperture == CosDeg(Div(l.aperture, 2))
             IN  IF cosAlpha >= cosAperture
                 THEN Pow(Max(0, cosAlpha), l.cutoff)
                 ELSE 0
        ELSE Unit

\* variant: the ambient term added outside the test of the attenuation
Contribution_shader_vert_AmbientUngated(l, position, normal, material) ==
    LET L == IF l.type = 1 THEN Normalize(Neg(Xyz(l.position)))
                           ELSE Normalize(Sub3(Xyz(l.position), position))
        spotAttenuation == SpotAttenuation_shader_vert(l, position)
        ambient == ColorTerm(material.Ka, l.ambient)
    IN  IF spotAttenuation > 0
        THEN LET NdotL    == Max(0, Dot(normal, L))
                 diffuse  == Scale3(NdotL, ColorTerm(material.Kd, l.diffuse))
                 specular ==
                     IF NdotL > 0
                     THEN LET V     == Normalize(Neg(position))
                              R     == Reflect(Neg(L), normal)
                              RdotV == Max(0, Dot(R, V))
                          IN  Scale3(Pow(RdotV, material.shininess),
                                     ColorTerm(material.Ks, l.specular))
                     ELSE Zero3
             IN  Scale3(spotAttenuation, Add3(Add3(ambient, diffuse), specular))
        ELSE ambient

Contribution_shader_vert(l, position, normal, material) ==
    LET L == IF l.type = 1 THEN Normalize(Neg(Xyz(l.position)))
                           ELSE Normalize(Sub3(Xyz(l.position), position))
        spotAttenuation == SpotAttenuation_shader_vert(l, position)
    IN  IF spotAttenuation > 0
        THEN LET ambient  == ColorTerm(material.Ka, l.ambient)
                 NdotL    == Max(0, Dot(normal, L))
                 diffuse  == Scale3(NdotL, ColorTerm(material.Kd, l.diffuse))
                 specular ==
                     IF NdotL > 0
                     THEN LET V     == Normalize(Neg(position))
                              R     == Reflect(Neg(L), normal)
                              RdotV == Max(0, Dot(R, V))
                          IN  Scale3(Pow(RdotV, material.shininess),
                                     ColorTerm(material.Ks, l.specular))
                     ELSE Zero3
             IN  Scale3(spotAttenuation, Add3(Add3(ambient, diffuse), specular))
        ELSE Zero3

\* one iteration of the light loop, past the `break` test
LoopBody_shader_vert(un, position, normal, material, i, color) ==
    IF un.light[i].enabled = 0
    THEN color                                                \* continue
    ELSE Add3(color, Contribution_shader_vert(un.light[i], position, normal, material))

RECURSIVE Loop_shader_vert(_, _, _, _, _, _)
Loop_shader_vert(un, position, normal, material, i, color) ==
    IF i >= MAX_LIGHTS_shader_vert THEN color
    ELSE IF i >= un.n_lights THEN color                       \* break
    ELSE Loop_shader_vert(un, position, normal, material, i + 1,
             LoopBody_shader_vert(un, position, normal, material, i, color))

phongLighting_shader_vert(un, position, normal, material) ==
    Loop_shader_vert(un, position, normal, material, 0, Zero3)

(* ---- shader.frag (combined program) ---- *)

MAX_LIGHTS_shader_frag == 8

\* variant: the cone test the wrong way round
SpotAttenuation_shader_frag_InvertedCone(l, position) ==
    IF l.type = 2
    THEN LET toLight     == Normalize(Sub3(Xyz(l.position), position))
             lightDir    == Normalize(Neg(l.axis))
             cosAlpha    == Dot(toLight, lightDir)
             cosAperture == CosDeg(Div(l.aperture, 2))
         IN  IF cosAlpha <= cosAperture
             THEN Pow(Max(0, cosAlpha), l.cutoff)
             ELSE 0
    ELSE Unit

\* this copy recomputes the direction to the light (toLight) for the cone test
SpotAttenuation_shader_frag(l, position) ==
    IF l.type = 2
    THEN LET toLight     == Normalize(Sub3(Xyz(l.position), position))
             lightDir    == Normalize(Neg(l.axis))
             cosAlpha    == Dot(toLight, lightDir)
             cosAperture == CosDeg(Div(l.aperture, 2))
         IN  IF cosAlpha >= cosAperture
             THEN Pow(Max(0, cosAlpha), l.cutoff)
             ELSE 0
    ELSE Unit

Contribution_shader_frag(l, position, normal, material) ==
    LET L == IF l.type = 1 THEN Normalize(Neg(Xyz(l.position)))
                           ELSE Normalize(Sub3(Xyz(l.position), position))
        spotAttenuation == SpotAttenuation_shader_frag(l, position)
    IN  IF spotAttenuation > 0
        THEN LET ambient  == ColorTerm(material.Ka, l.ambient)
                 NdotL    == Max(0, Dot(normal, L))
                 diffuse  == Scale3(NdotL, ColorTerm(material.Kd, l.diffuse))
                 specular ==
                     IF NdotL > 0
                     THEN LET V     == Normalize(Neg(position))
                              R     == Reflect(Neg(L), normal)
                              RdotV == Max(0, Dot(R, V))
                          IN  Scale3(Pow(RdotV, material.shininess),
                                     ColorTerm(material.Ks, l.specular))
                     ELSE Zero3
             IN  Scale3(spotAttenuation, Add3(Add3(ambient, diffuse), specular))
        ELSE Zero3

\* one iteration of the light loop, past the `break` test
LoopBody_shader_frag(un, position, normal, material, i, color) ==
    IF un.light[i].enabled = 0
    THEN color                                                \* continue
    ELSE Add3(color, Contribution_shader_frag(un.light[i], position, normal, material))

RECURSIVE Loop_shader_frag(_, _, _, _, _, _)
Loop_shader_frag(un, position, normal, material, i, color) ==
    IF i >= MAX_LIGHTS_shader_frag THEN color
    ELSE IF i >= un.n_lights THEN color                       \* break
    ELSE Loop_shader_frag(un, position, normal, material, i + 1,
             LoopBody_shader_frag(un, position, normal, material, i, color))

phongLighting_shader_frag(un, position, normal, material) ==
    Loop_shader_frag(un, position, normal, material, 0, Zero3)


----------------------------------------------------------------------------
(* The application (two-program variant): lights, light space, uploads     *)

MAX_LIGHTS == 8

\* the panel builds folders for lights 0..2 only
GuiLights == 3

Programs == {"phong", "gouraud"}

LightIndices == 0 .. (MAX_LIGHTS - 1)

\* the JavaScript number NaN: 0 / 0, and every sum or product with a NaN
NaN == 0 - 1073741824

NaN3 == <<NaN, NaN, NaN>>

IsNaN(v) == \E k \in DOMAIN v : v[k] = NaN

\* MV.js normalize() on a vector of non-zero length
scale(s, v) == <<Div(v[1] * Unit, s), Div(v[2] * Unit, s), Div(v[3] * Unit, s)>>

\* MV.js normalize(): every component divided by the length; a zero vector
\* gives 0 / 0 in every component
normalize(v) ==
    IF IsNaN(v) THEN NaN3
    ELSE IF Length(v) = 0 THEN NaN3
    ELSE scale(Length(v), v)

\* MV.js lookAt(eye, at, up): rows (n, -n.eye), (u, -u.eye), (-v, v.eye), (0,0,0,1)
ViewRow(axis, eye) == <<axis[1], axis[2], axis[3], 0 - Dot(axis, eye)>>

ViewMatrix(n, uu, nv, eye) ==
    <<ViewRow(n, eye), ViewRow(uu, eye), ViewRow(nv, eye), <<0, 0, 0, 1>> >>

\* the view matrix built from a NaN direction
NaNView == [r \in 1..4 |-> <<NaN, NaN, NaN, NaN>>]

lookAtFrom(v, n, eye) ==
    IF IsNaN(n) THEN NaNView
    ELSE ViewMatrix(n, normalize(Cross(n, v)), Neg(v), eye)

lookAtAlong(v, eye, up) ==
    IF IsNaN(v) \/ IsNaN(up) THEN NaNView
    ELSE lookAtFrom(v, normalize(Cross(v, up)), eye)

lookAt(eye, at, up) == lookAtAlong(normalize(Sub3(at, eye)), eye, up)

\* MV.js mult(mat4, vec4); the w component is a plain 0/1 flag
mult(m, v) ==
    [r \in 1..4 |->
        IF r = 4 THEN v[4]
        ELSE IF IsNaN(v) \/ IsNaN(m[r]) THEN NaN
        ELSE Dot(<<m[r][1], m[r][2], m[r][3]>>, Xyz(v)) + m[r][4] * v[4]]

\* the lights array with every record enabled from the start
DefaultLight_AllEnabled(i) ==
    [enabled  |-> TRUE,
     type     |-> 0,
     position |-> <<0, 0, 10 * Unit, 1>>,
     axis     |-> <<0, 0, 0 - Unit>>,
     aperture |-> 10 * Unit,
     cutoff   |-> 10,
     ambient  |-> <<80, 80, 80>>,
     diffuse  |-> <<120, 120, 120>>,
     specular |-> <<200, 200, 200>>]

\* one record of the lights array as the module's top level builds it
DefaultLight(i) ==
    [enabled  |-> (i = 0),
     type     |-> 0,
     position |-> <<0, 0, 10 * Unit, 1>>,
     axis     |-> normalize(<<0, 0, 0 - Unit>>),
     aperture |-> 10 * Unit,
     cutoff   |-> 10,
     ambient  |-> <<80, 80, 80>>,
     diffuse  |-> <<120, 120, 120>>,
     specular |-> <<200, 200, 200>>]

InitialCamera ==
    [eye |-> <<0, 7 * Unit, 13 * Unit>>,
     at  |-> <<0, 1 * Unit, 0>>,
     up  |-> <<0, 1 * Unit, 0>>]

WithW(v, w) == <<v[1], v[2], v[3], w>>

\* the World branch of getLightCameraSpace
WorldToEye(light, view) ==
    [posEye  |-> WithW(mult(view, light.position), light.position[4]),
     axisEye |-> Xyz(mult(view, WithW(light.axis, 0)))]

getLightCameraSpace(light, opts, cam) ==
    IF opts.lightCoords = "Camera"
    THEN [posEye  |-> light.position,
          axisEye |-> light.axis]
    ELSE WorldToEye(light, lookAt(cam.eye, cam.at, normalize(cam.up)))

\* the first loop of uploadLights
RECURSIVE CountLights(_, _, _)
CountLights(ls, i, nLights) ==
    IF i >= MAX_LIGHTS THEN nLights
    ELSE CountLights(ls, i + 1, IF ls[i].enabled THEN i + 1 ELSE nLights)

\* the values the second loop of uploadLights passes to gl.uniform* for one light
UniformsOf(light, camLight) ==
    [enabled  |-> IF light.enabled THEN 1 ELSE 0,
     type     |-> light.type,
     position |-> WithW(camLight.posEye, IF light.type = 1 THEN 0 ELSE 1),
     axis     |-> camLight.axisEye,
     aperture |-> light.aperture,
     cutoff   |-> light.cutoff,
     ambient  |-> light.ambient,
     diffuse  |-> light.diffuse,
     specular |-> light.specular]

LightUniforms(light, opts, cam) ==
    UniformsOf(light, getLightCameraSpace(light, opts, cam))

\* number of slots of the u_light_* arrays that are active in a program
ArraySize(prog) ==
    IF prog = "gouraud" THEN MAX_LIGHTS_gouraud_vert ELSE MAX_LIGHTS_phong_frag

\* a program's uniforms before the first upload (GL initialises them to 0)
ZeroLight ==
    [enabled |-> 0, type |-> 0, position |-> <<0, 0, 0, 0>>, axis |-> Zero3,
     aperture |-> 0, cutoff |-> 0,
     ambient |-> Zero3, diffuse |-> Zero3, specular |-> Zero3]

ZeroUniforms == [n_lights |-> 0, shadingMode |-> 0, light |-> [i \in LightIndices |-> ZeroLight]]

\* uploadLights(): locations are looked up in `prog` (the program variable);
\* gl.uniform* rejects a location of a program other than the one in use
\* (INVALID_OPERATION, nothing written), and a slot outside the program's
\* arrays has a null location and is skipped
uploadLights(ls, opts, cam, prog, glProg, unis) ==
    IF prog # glProg THEN unis
    ELSE [unis EXCEPT ![prog] =
            [n_lights    |-> CountLights(ls, 0, 0),
             shadingMode |-> unis[prog].shadingMode,
             light       |-> [i \in LightIndices |->
                                IF i < ArraySize(prog)
                                THEN LightUniforms(ls[i], opts, cam)
                                ELSE unis[prog].light[i]]]]


----------------------------------------------------------------------------
(* Bounds of the model                                                     *)

\* panel edits explored from the startup state
MaxEdits == 2

\* panel light slots populated when the shaders are run on drawn uniforms
MaxShaderLights == 2

\* values the panel's sliders are moved to
PositionSliderValues == {0, 5 * Unit}
AxisSliderValues     == {0 - Unit, 0, Unit}
ApertureSliderValues == {0, 180 * Unit}
CutoffSliderValues   == {0, 50}
ColorPickerValues    == {<<255, 255, 255>>}

----------------------------------------------------------------------------
(* Application: startup state and handlers                                 *)

\* `lit` records whether the stage called phongLighting
IdleVaryings == [v_position |-> Zero3, v_normal |-> Zero3, v_color |-> Zero3, lit |-> FALSE]

NoColor == [rgb |-> Zero3, a |-> 0, lit |-> FALSE]

DefaultSample ==
    [position |-> <<0, 0, 0 - 5 * Unit>>,
     normal   |-> <<0, 0, Unit>>,
     material |-> [Ka |-> <<200, 150, 200>>, Kd |-> <<220, 180, 220>>,
                   Ks |-> <<255, 255, 255>>, shininess |-> 100]]

UndefOutcomes ==
    {[pow00 |-> 0,    norm0 |-> Zero3],
     [pow00 |-> Unit, norm0 |-> <<Unit, 0, 0>>]}

\* module top level, then setup(): program = programPhong, gl.useProgram,
\* setupGUI, and the first render() call, which uploads the lights
AppInit ==
    /\ lights    = [i \in LightIndices |-> DefaultLight(i)]
    /\ options   = [lightCoords |-> "Camera"]
    /\ camera    = InitialCamera
    /\ program   = "phong"
    /\ glProgram = "phong"
    /\ uniforms  = uploadLights([i \in LightIndices |-> DefaultLight(i)],
                                [lightCoords |-> "Camera"], InitialCamera,
                                "phong", "phong", [p \in Programs |-> ZeroUniforms])
    /\ nEdits    = 0

ShaderIdle ==
    /\ pc        = "idle"
    /\ shader    = "phong"
    /\ u         = ZeroUniforms
    /\ sample    = DefaultSample
    /\ varyings  = IdleVaryings
    /\ fragColor = NoColor
    /\ undef     \in UndefOutcomes

\* `let mProjection;`: not built yet
NoProjection == [built |-> FALSE, fovy |-> 0, near |-> 0, far |-> 0]

\* the matrix and material uniforms of a program before the first upload
NoMatrices ==
    [p \in Programs |-> [projection |-> NoProjection,
                         modelView  |-> [view |-> <<>>, object |-> 0],
                         material   |-> 0]]

\* no frame has drawn a spotlight circle yet; seen is the lights and the
\* options the latest frame has read
NoDisc == [seen |-> <<>>, centres |-> [i \in LightIndices |-> {}]]

\* `let isMouseDown = false; let lastMouseX = 0; let lastMouseY = 0;`; from
\* is the position of the latest mouse event of the drag in progress, event
\* the kind of the latest mouse event, button the latest of mousedown and
\* mouseup
NoMouse == [down |-> FALSE, x |-> 0, y |-> 0, from |-> <<0, 0>>, event |-> "none",
            button |-> "none"]

\* the matrices, the panel and the frame loop are left out of Spec and SpecShader
FrameIdle ==
    /\ mProjection   = NoProjection
    /\ mView         = <<>>
    /\ matrices      = NoMatrices
    /\ panel         = {}
    /\ thrown        = {}
    /\ initialCamera = InitialCamera
    /\ built = Programs
    /\ disc = NoDisc
    /\ console = {}
    /\ mouse = NoMouse
    /\ angles = [yaw |-> 0, pitch |-> 0]
    /\ input         = [keys |-> {}, bound |-> {"eye", "at", "up"}]
    /\ frame         = [pc |-> "idle", pending |-> 0, timed |-> FALSE, k |-> 0]

Init == AppInit /\ ShaderIdle /\ FrameIdle

\* every light callback of the panel ends in uploadLights()
LightEdited(ls) ==
    /\ nEdits < MaxEdits
    /\ nEdits' = nEdits + 1
    /\ lights' = ls
    /\ uniforms' = uploadLights(ls, options, camera, program, glProgram, uniforms)
    /\ UNCHANGED <<options, camera, program, glProgram, shaderVars, frameVars>>

SetEnabled(i) ==
    LightEdited([lights EXCEPT ![i].enabled = ~ @])

SetType(i, t) ==
    /\ t # lights[i].type
    /\ LightEdited([lights EXCEPT ![i].type = t,
                                  ![i].position[4] = IF t = 1 THEN 0 ELSE 1])

SetPosition(i, c, v) ==
    /\ v # lights[i].position[c]
    /\ LightEdited([lights EXCEPT ![i].position[c] = v])

\* the position folder's `w` slider (0..1, step 1)
SetPositionW(i, w) ==
    /\ w # lights[i].position[4]
    /\ LightEdited([lights EXCEPT ![i].position[4] = w])

SetIntensity(i, f, v) ==
    /\ v # lights[i][f]
    /\ LightEdited([lights EXCEPT ![i][f] = v])

SetAxis(i, c, v) ==
    /\ v # lights[i].axis[c]
    /\ LightEdited([lights EXCEPT ![i].axis = normalize([@ EXCEPT ![c] = v])])

SetAperture(i, a) ==
    /\ a # lights[i].aperture
    /\ LightEdited([lights EXCEPT ![i].aperture = a])

SetCutoff(i, c) ==
    /\ c # lights[i].cutoff
    /\ LightEdited([lights EXCEPT ![i].cutoff = c])

SetLightCoords(mode) ==
    /\ nEdits < MaxEdits
    /\ mode # options.lightCoords
    /\ nEdits' = nEdits + 1
    /\ options' = [options EXCEPT !.lightCoords = mode]
    /\ uniforms' = uploadLights(lights, options', camera, program, glProgram, uniforms)
    /\ UNCHANGED <<lights, camera, program, glProgram, shaderVars, frameVars>>

\* shading folder: only the program variable changes
SetShadingMode(val) ==
    /\ nEdits < MaxEdits
    /\ program # (IF val = "Phong" THEN "phong" ELSE "gouraud")
    /\ nEdits' = nEdits + 1
    /\ program' = IF val = "Phong" THEN "phong" ELSE "gouraud"
    /\ UNCHANGED <<lights, options, camera, glProgram, uniforms, shaderVars, frameVars>>

\* one frame: gl.useProgram(program); uploadProjection(); uploadLights(); draws
Render ==
    /\ glProgram' = program
    /\ uniforms' = uploadLights(lights, options, camera, program, program, uniforms)
    /\ UNCHANGED <<lights, options, camera, program, nEdits, shaderVars, frameVars>>

Next ==
    \/ \E i \in 0 .. (GuiLights - 1) : SetEnabled(i)
    \/ \E i \in 0 .. (GuiLights - 1), t \in {0, 1, 2} : SetType(i, t)
    \/ \E i \in 0 .. (GuiLights - 1), c \in 1..3, v \in PositionSliderValues : SetPosition(i, c, v)
    \/ \E i \in 0 .. (GuiLights - 1), w \in {0, 1} : SetPositionW(i, w)
    \/ \E i \in 0 .. (GuiLights - 1), f \in {"ambient", "diffuse", "specular"},
          v \in ColorPickerValues : SetIntensity(i, f, v)
    \/ \E i \in 0 .. (GuiLights - 1), c \in 1..3, v \in AxisSliderValues : SetAxis(i, c, v)
    \/ \E i \in 0 .. (GuiLights - 1), a \in ApertureSliderValues : SetAperture(i, a)
    \/ \E i \in 0 .. (GuiLights - 1), c \in CutoffSliderValues : SetCutoff(i, c)
    \/ \E mode \in {"Camera", "World"} : SetLightCoords(mode)
    \/ \E val \in {"Phong", "Gouraud"} : SetShadingMode(val)
    \/ Render

Spec == Init /\ [][Next]_vars

----------------------------------------------------------------------------
(* Shader stages, run on one vertex-aligned sample of a draw call          *)

Shaders == {"phong", "gouraud", "combined"}

\* gouraud.vert main()
VertexMain_gouraud(un, s) ==
    [v_position |-> Zero3,
     v_normal   |-> Zero3,
     v_color    |-> phongLighting_gouraud_vert(un, s.position, Normalize(s.normal), s.material),
     lit        |-> TRUE]

\* phong.vert main()
VertexMain_phong(un, s) ==
    [v_position |-> s.position,
     v_normal   |-> Normalize(s.normal),
     v_color    |-> Zero3,
     lit        |-> FALSE]

\* shader.vert main()
VertexMain_combined(un, s) ==
    [v_position |-> s.position,
     v_normal   |-> Normalize(s.normal),
     v_color    |-> IF un.shadingMode = 0
                    THEN phongLighting_shader_vert(un, s.position, Normalize(s.normal), s.material)
                    ELSE Zero3,
     lit        |-> (un.shadingMode = 0)]

\* gouraud.frag main()
FragmentMain_gouraud(un, v, material) ==
    [rgb |-> Clamp01(v.v_color), a |-> Unit, lit |-> FALSE]

\* phong.frag main()
FragmentMain_phong(un, v, material) ==
    LET color == phongLighting_phong_frag(un, v.v_position, Normalize(v.v_normal), material)
    IN  [rgb |-> Clamp01(color), a |-> Unit, lit |-> TRUE]

\* a fragment stage that evaluates the light model whatever the mode is
FragmentMain_combined_AlwaysLights(un, v, material) ==
    LET color == phongLighting_shader_frag(un, v.v_position, Normalize(v.v_normal), material)
    IN  [rgb |-> Clamp01(color), a |-> Unit, lit |-> TRUE]

\* shader.frag main()
FragmentMain_combined(un, v, material) ==
    LET color == IF un.shadingMode = 0
                 THEN v.v_color
                 ELSE phongLighting_shader_frag(un, v.v_position, Normalize(v.v_normal), material)
    IN  [rgb |-> Clamp01(color), a |-> Unit, lit |-> (un.shadingMode # 0)]

\* uniform values the shaders are run on: what uploadLights leaves in a
\* program for lights set on the panel (slots 0 .. GuiLights-1)
ShaderLightPositions == {<<0, 0, 0 - 2 * Unit>>, <<0, 0, 0 - 10 * Unit>>}
ShaderApertures      == {0, 7374, 180 * Unit}
ShaderCutoffs        == {0, 2}
ShaderIntensities    == {[ambient |-> <<80, 80, 80>>, diffuse |-> <<120, 120, 120>>,
                          specular |-> <<200, 200, 200>>],
                         [ambient |-> <<255, 255, 255>>, diffuse |-> <<255, 255, 255>>,
                          specular |-> <<255, 255, 255>>]}

ShaderLight(en, t, pos, ap, co, level) ==
    [enabled  |-> en,
     type     |-> t,
     position |-> <<pos[1], pos[2], pos[3], IF t = 1 THEN 0 ELSE 1>>,
     axis     |-> <<0, 0, 0 - Unit>>,
     aperture |-> ap,
     cutoff   |-> co,
     ambient  |-> level.ambient,
     diffuse  |-> level.diffuse,
     specular |-> level.specular]

\* slot 0: a Spotlight of every aperture and cutoff, a Point and a
\* Directional light with the default aperture and cutoff (which they ignore)
FirstSlotLights ==
    {ShaderLight(en, 2, pos, ap, co, level) :
        en \in {0, 1}, pos \in ShaderLightPositions,
        ap \in ShaderApertures, co \in ShaderCutoffs, level \in ShaderIntensities}
    \cup
    {ShaderLight(en, t, pos, 10 * Unit, 10, level) :
        en \in {0, 1}, t \in {0, 1}, pos \in ShaderLightPositions,
        level \in ShaderIntensities}

BrightLevel == [ambient |-> <<255, 255, 255>>, diffuse |-> <<255, 255, 255>>,
                specular |-> <<255, 255, 255>>]

\* a later slot: untouched default, a disabled spotlight left with full
\* intensities, or an enabled bright point light near the eye
OtherSlotLights ==
    {ShaderLight(0, 0, <<0, 0, 10 * Unit>>, 10 * Unit, 10,
                 [ambient |-> <<80, 80, 80>>, diffuse |-> <<120, 120, 120>>,
                  specular |-> <<200, 200, 200>>]),
     ShaderLight(0, 2, <<0, 0, 0 - 2 * Unit>>, 180 * Unit, 0, BrightLevel),
     ShaderLight(1, 0, <<0, 0, 0 - Unit>>, 10 * Unit, 10, BrightLevel)}

PopulatedSlots == Min(MaxShaderLights, GuiLights)

RECURSIVE CountUniformLights(_, _, _)
CountUniformLights(ls, i, nLights) ==
    IF i >= MAX_LIGHTS THEN nLights
    ELSE CountUniformLights(ls, i + 1, IF ls[i].enabled = 1 THEN i + 1 ELSE nLights)

DefaultShaderLight ==
    ShaderLight(0, 0, <<0, 0, 10 * Unit>>, 10 * Unit, 10,
                [ambient |-> <<80, 80, 80>>, diffuse |-> <<120, 120, 120>>,
                 specular |-> <<200, 200, 200>>])

LightArrays ==
    {[i \in LightIndices |->
        IF i = 0 THEN first
        ELSE IF i < PopulatedSlots THEN others[i]
        ELSE DefaultShaderLight] :
        first \in FirstSlotLights,
        others \in [1 .. (PopulatedSlots - 1) -> OtherSlotLights]}

UniformSets ==
    {[n_lights    |-> CountUniformLights(ls, 0, 0),
      shadingMode |-> mode,
      light       |-> ls] :
        mode \in {0, 1}, ls \in LightArrays}

SamplePositions == {<<0, 0, 0 - 10 * Unit>>, <<6 * Unit, 0, 0 - 10 * Unit>>,
                    <<5 * Unit, 0, 0 - 2 * Unit>>, <<0, 0, 0 - Unit>>}

SampleMaterials ==
    {[Ka |-> <<200, 150, 200>>, Kd |-> <<220, 180, 220>>,
      Ks |-> <<255, 255, 255>>, shininess |-> 100],
     [Ka |-> <<255, 255, 255>>, Kd |-> <<255, 255, 255>>,
      Ks |-> <<255, 255, 255>>, shininess |-> 1]}

Samples ==
    {[position |-> p, normal |-> <<0, 0, Unit>>, material |-> m] :
        p \in SamplePositions, m \in SampleMaterials}

ShaderInit ==
    /\ AppInit
    /\ FrameIdle
    /\ pc        = "idle"
    /\ shader    \in Shaders
    /\ u         \in UniformSets
    /\ (shader # "combined") => (u.shadingMode = 1)
    /\ sample    = DefaultSample
    /\ varyings  = IdleVaryings
    /\ fragColor = NoColor
    /\ undef     \in UndefOutcomes

\* a draw call reaches one vertex of the mesh
DrawSample(s) ==
    /\ pc = "idle"
    /\ pc' = "vertex"
    /\ sample' = s
    /\ varyings' = IdleVaryings
    /\ fragColor' = NoColor
    /\ UNCHANGED <<appVars, frameVars, shader, u, undef>>

VertexMain ==
    /\ pc = "vertex"
    /\ pc' = "fragment"
    /\ varyings' = CASE shader = "gouraud"  -> VertexMain_gouraud(u, sample)
                     [] shader = "phong"    -> VertexMain_phong(u, sample)
                     [] shader = "combined" -> VertexMain_combined(u, sample)
    /\ UNCHANGED <<appVars, frameVars, shader, u, sample, fragColor, undef>>

FragmentMain ==
    /\ pc = "fragment"
    /\ pc' = "idle"
    /\ fragColor' = CASE shader = "gouraud"  -> FragmentMain_gouraud(u, varyings, sample.material)
                      [] shader = "phong"    -> FragmentMain_phong(u, varyings, sample.material)
                      [] shader = "combined" -> FragmentMain_combined(u, varyings, sample.material)
    /\ UNCHANGED <<appVars, frameVars, shader, u, sample, varyings, undef>>

ShaderNext ==
    \/ \E s \in Samples : DrawSample(s)
    \/ VertexMain
    \/ FragmentMain

SpecShader == ShaderInit /\ [][ShaderNext]_vars

----------------------------------------------------------------------------
(* Properties                                                              *)

\* a sample has gone through the vertex and the fragment stage
Shaded == pc = "idle" /\ sample \in Samples

SampleNormal == Normalize(sample.normal)

\* the uniforms with every disabled slot cleared
BlankDisabled(un) ==
    [un EXCEPT !.light = [i \in LightIndices |->
                            IF un.light[i].enabled = 0 THEN ZeroLight ELSE un.light[i]]]

AnyColors == {Zero3, <<Unit, Unit, Unit>>, <<30, 0, 250>>}

\* C1: a light slot whose enabled flag is 0 adds exactly nothing to the
\* colour, per vertex and per fragment: the loop body returns the colour
\* accumulated so far, and the total is that of the uniforms with the
\* disabled slots cleared.
C1_DisabledLightAddsNothing ==
    Shaded =>
        /\ \A i \in LightIndices, c \in AnyColors :
            u.light[i].enabled = 0 =>
                /\ LoopBody_gouraud_vert(u, sample.position, SampleNormal, sample.material, i, c) = c
                /\ LoopBody_phong_frag(u, sample.position, SampleNormal, sample.material, i, c) = c
                /\ LoopBody_shader_vert(u, sample.position, SampleNormal, sample.material, i, c) = c
                /\ LoopBody_shader_frag(u, sample.position, SampleNormal, sample.material, i, c) = c
        /\ phongLighting_gouraud_vert(u, sample.position, SampleNormal, sample.material)
             = phongLighting_gouraud_vert(BlankDisabled(u), sample.position, SampleNormal, sample.material)
        /\ phongLighting_phong_frag(u, sample.position, SampleNormal, sample.material)
             = phongLighting_phong_frag(BlankDisabled(u), sample.position, SampleNormal, sample.material)
        /\ phongLighting_shader_vert(u, sample.position, SampleNormal, sample.material)
             = phongLighting_shader_vert(BlankDisabled(u), sample.position, SampleNormal, sample.material)
        /\ phongLighting_shader_frag(u, sample.position, SampleNormal, sample.material)
             = phongLighting_shader_frag(BlankDisabled(u), sample.position, SampleNormal, sample.material)

\* a shaded sample lit by slot 1 while slot 0, inside the loop's range, is a
\* disabled light with non-zero intensities
C1_Witness ==
    /\ Shaded
    /\ u.n_lights = 2
    /\ u.light[0].enabled = 0
    /\ u.light[0].ambient = <<255, 255, 255>>
    /\ u.light[1].enabled = 1
    /\ fragColor.rgb # Zero3

\* C2: for the same uniforms, material, position and unit normal the
\* per-vertex lighting (gouraud.vert, shader.vert with u_shadingMode 0)
\* returns the colour the per-fragment lighting (phong.frag, shader.frag)
\* returns, so every pipeline writes the same fragment colour.
C2_VertexEqualsFragment ==
    Shaded =>
        LET perFragment == phongLighting_phong_frag(u, sample.position, SampleNormal, sample.material)
        IN  /\ phongLighting_gouraud_vert(u, sample.position, SampleNormal, sample.material) = perFragment
            /\ phongLighting_shader_vert(u, sample.position, SampleNormal, sample.material) = perFragment
            /\ phongLighting_shader_frag(u, sample.position, SampleNormal, sample.material) = perFragment
            /\ fragColor.rgb = Clamp01(perFragment)

\* a sample shaded per vertex under two enabled lights: the colour the vertex
\* stage passes on is the one the per-fragment function returns
C2_Witness ==
    /\ Shaded
    /\ shader = "gouraud"
    /\ u.n_lights = 2
    /\ u.light[0].enabled = 1
    /\ u.light[1].enabled = 1
    /\ varyings.v_color # Zero3
    /\ varyings.v_color
         = phongLighting_phong_frag(u, sample.position, SampleNormal, sample.material)
    /\ fragColor.rgb = Clamp01(varyings.v_color)

\* the cosine of the angle, at the light, between the spotlight's axis and
\* the direction to the point
CosAlphaOf(l, position) ==
    Dot(Normalize(Sub3(Xyz(l.position), position)), Normalize(Neg(l.axis)))

SameContributionAt(l, p1, p2) ==
    /\ Contribution_gouraud_vert(l, p1, SampleNormal, sample.material)
         = Contribution_gouraud_vert(l, p2, SampleNormal, sample.material)
    /\ Contribution_phong_frag(l, p1, SampleNormal, sample.material)
         = Contribution_phong_frag(l, p2, SampleNormal, sample.material)
    /\ Contribution_shader_vert(l, p1, SampleNormal, sample.material)
         = Contribution_shader_vert(l, p2, SampleNormal, sample.material)
    /\ Contribution_shader_frag(l, p1, SampleNormal, sample.material)
         = Contribution_shader_frag(l, p2, SampleNormal, sample.material)

\* C4 as stated: a Directional light's contribution is the same at any two
\* positions, the normal, the material and the light being equal.
C4_DirectionalSameEverywhere ==
    Shaded =>
        \A i \in LightIndices, p \in SamplePositions :
            (u.light[i].enabled = 1 /\ u.light[i].type = 1) =>
                SameContributionAt(u.light[i], sample.position, p)

\* C4, amended: a Directional light's contribution is the same at two
\* positions that lie in the same direction from the eye; the position enters
\* only through the view direction normalize(-P) of the specular term.
C4_DirectionalSameViewDirection ==
    Shaded =>
        \A i \in LightIndices, p \in SamplePositions :
            (/\ u.light[i].enabled = 1
             /\ u.light[i].type = 1
             /\ Normalize(Neg(p)) = Normalize(Neg(sample.position))) =>
                SameContributionAt(u.light[i], sample.position, p)

\* a Directional light shading a sample on the view axis: the contribution at
\* another depth on that axis is the same, off the axis the highlight differs
C4_Witness ==
    /\ Shaded
    /\ u.light[0].enabled = 1
    /\ u.light[0].type = 1
    /\ sample.position = <<0, 0, 0 - 10 * Unit>>
    /\ Contribution_phong_frag(u.light[0], sample.position, SampleNormal, sample.material) # Zero3
    /\ Contribution_phong_frag(u.light[0], <<0, 0, 0 - Unit>>, SampleNormal, sample.material)
         = Contribution_phong_frag(u.light[0], sample.position, SampleNormal, sample.material)
    /\ Contribution_phong_frag(u.light[0], <<6 * Unit, 0, 0 - 10 * Unit>>, SampleNormal, sample.material)
         # Contribution_phong_frag(u.light[0], sample.position, SampleNormal, sample.material)

\* C5: a point of a Spotlight whose cosAlpha equals cosAperture exactly is
\* inside the cone: the attenuation is max(0, cosAlpha) ^ cutoff.
C5_ConeEdgeIsInside ==
    Shaded =>
        \A i \in LightIndices :
            (/\ u.light[i].enabled = 1
             /\ u.light[i].type = 2
             /\ CosAlphaOf(u.light[i], sample.position) = CosDeg(Div(u.light[i].aperture, 2))) =>
                LET att == Pow(Max(0, CosAlphaOf(u.light[i], sample.position)), u.light[i].cutoff)
                IN  /\ SpotAttenuation_gouraud_vert(u.light[i], sample.position) = att
                    /\ SpotAttenuation_phong_frag(u.light[i], sample.position) = att
                    /\ SpotAttenuation_shader_vert(u.light[i], sample.position) = att
                    /\ SpotAttenuation_shader_frag(u.light[i], sample.position) = att

\* a sample on the edge of a 73.74 degree cone (cosine 0.8), lit
C5_Witness ==
    /\ Shaded
    /\ u.light[0].enabled = 1
    /\ u.light[0].type = 2
    /\ u.light[0].aperture = 7374
    /\ u.light[0].cutoff = 2
    /\ CosAlphaOf(u.light[0], sample.position) = 80
    /\ CosDeg(Div(u.light[0].aperture, 2)) = 80
    /\ SpotAttenuation_phong_frag(u.light[0], sample.position) = 64
    /\ u.n_lights = 1
    /\ fragColor.rgb # Zero3

\* C6: at a point directly behind a Spotlight (cosAlpha = -1) the attenuation
\* is 0 and the light contributes nothing, for every aperture and cutoff.
C6_BehindSpotlightIsDark ==
    Shaded =>
        \A i \in LightIndices :
            (/\ u.light[i].enabled = 1
             /\ u.light[i].type = 2
             /\ CosAlphaOf(u.light[i], sample.position) = 0 - Unit) =>
                /\ SpotAttenuation_gouraud_vert(u.light[i], sample.position) = 0
                /\ SpotAttenuation_phong_frag(u.light[i], sample.position) = 0
                /\ SpotAttenuation_shader_vert(u.light[i], sample.position) = 0
                /\ SpotAttenuation_shader_frag(u.light[i], sample.position) = 0
                /\ Contribution_gouraud_vert(u.light[i], sample.position, SampleNormal, sample.material) = Zero3
                /\ Contribution_phong_frag(u.light[i], sample.position, SampleNormal, sample.material) = Zero3
                /\ Contribution_shader_vert(u.light[i], sample.position, SampleNormal, sample.material) = Zero3
                /\ Contribution_shader_frag(u.light[i], sample.position, SampleNormal, sample.material) = Zero3

\* a sample directly behind the only light, a Spotlight of aperture 180 and
\* cutoff 0, comes out black
C6_Witness ==
    /\ Shaded
    /\ u.n_lights = 1
    /\ u.light[0].type = 2
    /\ u.light[0].aperture = 180 * Unit
    /\ u.light[0].cutoff = 0
    /\ CosAlphaOf(u.light[0], sample.position) = 0 - Unit
    /\ fragColor.rgb = Zero3

\* C7: a Spotlight of aperture 0 contributes nothing to a point whose
\* cosAlpha is below 1.
C7_ZeroApertureLightsOnlyAxis ==
    Shaded =>
        \A i \in LightIndices :
            (/\ u.light[i].enabled = 1
             /\ u.light[i].type = 2
             /\ u.light[i].aperture = 0
             /\ CosAlphaOf(u.light[i], sample.position) < Unit) =>
                /\ Contribution_gouraud_vert(u.light[i], sample.position, SampleNormal, sample.material) = Zero3
                /\ Contribution_phong_frag(u.light[i], sample.position, SampleNormal, sample.material) = Zero3
                /\ Contribution_shader_vert(u.light[i], sample.position, SampleNormal, sample.material) = Zero3
                /\ Contribution_shader_frag(u.light[i], sample.position, SampleNormal, sample.material) = Zero3

\* a sample 36.87 degrees off the axis of the only light, a Spotlight of
\* aperture 0, comes out black
C7_Witness ==
    /\ Shaded
    /\ u.n_lights = 1
    /\ u.light[0].type = 2
    /\ u.light[0].aperture = 0
    /\ CosAlphaOf(u.light[0], sample.position) = 80
    /\ fragColor.rgb = Zero3

AtLeast(a, b) == \A c \in 1..3 : a[c] >= b[c]

\* C8: a Spotlight whose attenuation is 0 contributes nothing, not even its
\* ambient term; an enabled Point or Directional light contributes at least
\* its ambient term (Ka/255)*(ambient/255).
C8_AmbientGatedBySpotlight ==
    Shaded =>
        \A i \in LightIndices :
            u.light[i].enabled = 1 =>
                LET l       == u.light[i]
                    ambient == ColorTerm(sample.material.Ka, l.ambient)
                IN  /\ (l.type = 2 /\ SpotAttenuation_gouraud_vert(l, sample.position) = 0) =>
                          Contribution_gouraud_vert(l, sample.position, SampleNormal, sample.material) = Zero3
                    /\ (l.type = 2 /\ SpotAttenuation_phong_frag(l, sample.position) = 0) =>
                          Contribution_phong_frag(l, sample.position, SampleNormal, sample.material) = Zero3
                    /\ (l.type = 2 /\ SpotAttenuation_shader_vert(l, sample.position) = 0) =>
                          Contribution_shader_vert(l, sample.position, SampleNormal, sample.material) = Zero3
                    /\ (l.type = 2 /\ SpotAttenuation_shader_frag(l, sample.position) = 0) =>
                          Contribution_shader_frag(l, sample.position, SampleNormal, sample.material) = Zero3
                    /\ l.type # 2 =>
                          /\ AtLeast(Contribution_gouraud_vert(l, sample.position, SampleNormal, sample.material), ambient)
                          /\ AtLeast(Contribution_phong_frag(l, sample.position, SampleNormal, sample.material), ambient)
                          /\ AtLeast(Contribution_shader_vert(l, sample.position, SampleNormal, sample.material), ambient)
                          /\ AtLeast(Contribution_shader_frag(l, sample.position, SampleNormal, sample.material), ambient)

\* slot 0 is a bright Spotlight that does not reach the sample, slot 1 a
\* Point light facing away from the surface: the colour is slot 1's ambient
\* term alone
C8_Witness ==
    /\ Shaded
    /\ u.n_lights = 2
    /\ u.light[0].enabled = 1
    /\ u.light[0].type = 2
    /\ u.light[0].ambient = <<255, 255, 255>>
    /\ SpotAttenuation_shader_vert(u.light[0], sample.position) = 0
    /\ u.light[1].enabled = 1
    /\ u.light[1].type = 0
    /\ fragColor.rgb # Zero3
    /\ fragColor.rgb = Clamp01(ColorTerm(sample.material.Ka, u.light[1].ambient))

\* C9: the colour a fragment stage writes has its red, green and blue in
\* [0, 1] and alpha 1, in every program and both shading modes.
C9_FragColorInRange ==
    Shaded =>
        /\ \A c \in 1..3 : fragColor.rgb[c] >= 0 /\ fragColor.rgb[c] <= Unit
        /\ fragColor.a = Unit

\* the lights add up to more than 1 in red and the written red is 1, the
\* colour coming from the vertex stage of the combined program
C9_Witness ==
    /\ Shaded
    /\ shader = "combined"
    /\ u.shadingMode = 0
    /\ phongLighting_shader_vert(u, sample.position, SampleNormal, sample.material)[1] > Unit
    /\ fragColor.rgb[1] = Unit
    /\ fragColor.a = Unit

\* 0 for no index, else the highest index of the set plus one
HighestPlusOne(indices) ==
    IF indices = {} THEN 0
    ELSE (CHOOSE i \in indices : \A j \in indices : j <= i) + 1

\* a step in which uploadLights ran: a light or the light space was edited,
\* or a frame bound a program or changed a uniform
UploadStep ==
    \/ lights' # lights
    \/ options' # options
    \/ glProgram' # glProgram
    \/ uniforms' # uniforms

\* C3: after every uploadLights, u_n_lights of the program in use is 0 when
\* no light is enabled and otherwise the highest enabled index plus one, so
\* every enabled light i has i < u_n_lights.
C3_LightCountAfterEveryUpload ==
    [][UploadStep =>
          /\ uniforms'[program'].n_lights
               = HighestPlusOne({i \in LightIndices : lights'[i].enabled})
          /\ \A i \in LightIndices :
               lights'[i].enabled => i < uniforms'[program'].n_lights]_vars

\* the eye-space values C10 describes for a light in World mode
WorldUploadAsClaimed(light, cam) ==
    LET view == lookAt(cam.eye, cam.at, cam.up)
        p    == light.position
    IN  [position |-> Xyz(mult(view, <<p[1], p[2], p[3], IF light.type = 1 THEN 0 ELSE 1>>)),
         axis     |-> Xyz(mult(view, <<light.axis[1], light.axis[2], light.axis[3], 0>>))]

\* C10: in World light-space mode the position uploaded for a Point or
\* Spotlight light is the view matrix applied to (x, y, z, 1), and every axis
\* and every Directional direction is transformed with w = 0, whatever the
\* stored w component of the position is.
C10_WorldUploadIgnoresStoredW ==
    [][(UploadStep /\ glProgram' = program' /\ options'.lightCoords = "World") =>
          \A i \in 0 .. (GuiLights - 1) :
              /\ Xyz(uniforms'[program'].light[i].position)
                   = WorldUploadAsClaimed(lights'[i], camera').position
              /\ uniforms'[program'].light[i].axis
                   = WorldUploadAsClaimed(lights'[i], camera').axis]_vars

\* a step of the light-space dropdown alone, taken with the camera at its
\* startup pose and the edited program in use
ToggleStep ==
    /\ options'.lightCoords # options.lightCoords
    /\ lights' = lights
    /\ camera = InitialCamera /\ camera' = camera
    /\ program = glProgram /\ program' = program /\ glProgram' = glProgram

\* C11: with the camera at its startup pose, toggling the light space between
\* World and Camera without editing a light leaves the eye-space position and
\* axis uploaded for every light unchanged.
C11_ToggleKeepsEyeSpaceLights ==
    [][ToggleStep =>
          \A i \in 0 .. (GuiLights - 1) :
              /\ uniforms'[program].light[i].position = uniforms[program].light[i].position
              /\ uniforms'[program].light[i].axis = uniforms[program].light[i].axis]_vars

\* C12: in every reachable state each light's stored position w component is
\* 0 if the light's type is Directional and 1 otherwise.
C12_StoredWFollowsType ==
    \A i \in LightIndices :
        lights[i].position[4] = (IF lights[i].type = 1 THEN 0 ELSE 1)

\* rounding slack of the fixed-point length of a normalised vector
UnitSlack == 3

IsUnit(v) == (~ IsNaN(v)) /\ Length(v) \in (Unit - UnitSlack) .. (Unit + UnitSlack)

\* C13: after every panel edit of an axis component the stored axis of that
\* light has unit length, so in every reachable state every light's axis is
\* a unit vector.
C13_AxisIsUnit ==
    \A i \in LightIndices : IsUnit(lights[i].axis)

----------------------------------------------------------------------------
(* The first copy of part_004 (lines 1-974): orbit camera, two programs,    *)
(* spotlights emitted from the camera in Camera mode                       *)

sceneTarget == <<0, 1 * Unit, 0>>

defaultSpotAperture == 22 * Unit

\* lights[0], lights[1], lights[2] as the module's top level assigns them
HeadlampLight(t, pos) ==
    [enabled  |-> TRUE,
     type     |-> t,
     position |-> WithW(pos, 1),
     axis     |-> normalize(Sub3(sceneTarget, pos)),
     aperture |-> defaultSpotAperture,
     cutoff   |-> 15,
     ambient  |-> <<80, 80, 80>>,
     diffuse  |-> <<120, 120, 120>>,
     specular |-> <<200, 200, 200>>]

\* the lights array after the top level has run: indices 0, 1 and 2 only
HeadlampLights ==
    (0 :> HeadlampLight(0, <<0, 10 * Unit, 0>>))
    @@ (1 :> HeadlampLight(2, <<4 * Unit, 10 * Unit, 4 * Unit>>))
    @@ (2 :> HeadlampLight(2, <<0 - 4 * Unit, 10 * Unit, 4 * Unit>>))

\* the camera object of both copies of part_004; near is kept in hundredths:
\* 0.1 is 10, the slider minimum 0.01 is 1
StartupCamera ==
    [eye  |-> <<0, 7 * Unit, 13 * Unit>>,
     at   |-> <<0, 1 * Unit, 0>>,
     up   |-> <<0, 1 * Unit, 0>>,
     fovy |-> 45 * Unit,
     near |-> 10,
     far  |-> 40 * Unit]

LightFolder(i) == <<"Light1", "Light2", "Light3", "Light4",
                    "Light5", "Light6", "Light7", "Light8">>[i + 1]

\* the lights loop of setupGUI: lightFolder.add(light, 'enabled') reads a
\* property of lights[i]; for an index the array does not hold, lights[i] is
\* undefined and the read throws a TypeError that ends setupGUI and setup
RECURSIVE AddLightFolders(_, _, _)
AddLightFolders(ls, i, result) ==
    IF i >= MAX_LIGHTS THEN result
    ELSE IF i \notin DOMAIN ls THEN [result EXCEPT !.thrown = TRUE]
    ELSE AddLightFolders(ls, i + 1, [result EXCEPT !.panel = @ \cup {LightFolder(i)}])

\* the folders that follow the lights loop
AddLastFolders(result) ==
    IF result.thrown THEN result
    ELSE [result EXCEPT !.panel = @ \cup {"materials", "shading"}]

setupGUI_headlamp(ls) ==
    AddLastFolders(AddLightFolders(ls, 0, [panel |-> {"options", "camera"}, thrown |-> FALSE]))

\* the near plane updateProjection leaves in camera.near
ClampNear_Unchecked(near, far) == near

ClampNear(near, far) ==
    IF Max(near, 1) >= far - 1 THEN far - 1 ELSE Max(near, 1)

Perspective(cam) ==
    [built |-> TRUE, fovy |-> cam.fovy, near |-> cam.near, far |-> cam.far]

\* gl.uniformMatrix4fv / 3fv on a location of `prog`: rejected when another
\* program is in use
UploadMatrix(mats, prog, glProg, name, value) ==
    IF prog # glProg THEN mats ELSE [mats EXCEPT ![prog][name] = value]

\* the first loop of uploadLights reads lights[i].enabled for i < MAX_LIGHTS:
\* -1 when it reads an index the array does not hold (TypeError)
RECURSIVE CountLights_headlamp(_, _, _)
CountLights_headlamp(ls, i, nLights) ==
    IF i >= MAX_LIGHTS THEN nLights
    ELSE IF i \notin DOMAIN ls THEN 0 - 1
    ELSE CountLights_headlamp(ls, i + 1, IF ls[i].enabled THEN i + 1 ELSE nLights)

getLightCameraSpace_headlamp(light, opts, cam) ==
    IF opts.lightCoords = "Camera"
    THEN IF light.type = 2
         THEN [posEye |-> <<0, 0, 0, 1>>, axisEye |-> <<0, 0, 0 - Unit>>]
         ELSE [posEye |-> light.position, axisEye |-> light.axis]
    ELSE WorldToEye(light, lookAt(cam.eye, cam.at, normalize(cam.up)))

\* uploadLights of the first copy: the TypeError of the counting loop comes
\* before the first gl.uniform call
uploadLights_headlamp(ls, opts, cam, prog, glProg, unis) ==
    IF CountLights_headlamp(ls, 0, 0) < 0 THEN [uniforms |-> unis, thrown |-> TRUE]
    ELSE IF prog # glProg THEN [uniforms |-> unis, thrown |-> FALSE]
    ELSE [thrown   |-> FALSE,
          uniforms |-> [unis EXCEPT ![prog] =
            [n_lights    |-> CountLights_headlamp(ls, 0, 0),
             shadingMode |-> unis[prog].shadingMode,
             light       |-> [i \in LightIndices |->
                                IF i < ArraySize(prog)
                                THEN UniformsOf(ls[i], getLightCameraSpace_headlamp(ls[i], opts, cam))
                                ELSE unis[prog].light[i]]]]]

\* sliders of the camera folder
FovySliderValues_headlamp == {90 * Unit}
NearSliderValues_headlamp == {1, 499, 5 * Unit, 100 * Unit}
FarSliderValues_headlamp  == {5 * Unit, 100 * Unit}
EyeSliderValues == {5 * Unit}
AtSliderValues  == {0 - 5 * Unit}
UpSliderValues  == {0, Unit}

\* module top level and setup() up to the statement that throws
HeadlampInit ==
    /\ lights    = HeadlampLights
    /\ options   = [lightCoords |-> "Camera"]
    /\ camera    = StartupCamera
    /\ program   = "phong"
    /\ glProgram = "phong"
    /\ uniforms  = [p \in Programs |-> ZeroUniforms]
    /\ nEdits    = 0
    /\ panel     = setupGUI_headlamp(HeadlampLights).panel
    /\ thrown    = IF setupGUI_headlamp(HeadlampLights).thrown THEN {"setupGUI"} ELSE {}
    /\ mProjection = NoProjection
    /\ mView     = <<>>
    /\ matrices  = NoMatrices
    /\ initialCamera = InitialCamera
    /\ built = Programs
    /\ disc = NoDisc
    /\ console = {}
    /\ mouse = NoMouse
    /\ angles = [yaw |-> 0, pitch |-> 0]
    /\ input     = [keys |-> {}, bound |-> {"eye", "at", "up"}]
    /\ frame     = [pc |-> "failed", pending |-> 0, timed |-> FALSE, k |-> 0]
    /\ ShaderIdle

\* updateProjection(): clamp near, build the matrix, upload it
updateProjection_headlamp(cam) ==
    /\ camera' = [cam EXCEPT !.near = ClampNear(cam.near, cam.far)]
    /\ mProjection' = Perspective(camera')
    /\ matrices' = UploadMatrix(matrices, program, glProgram, "projection", mProjection')

CameraFieldEdited(cam) ==
    /\ "camera" \in panel
    /\ nEdits < MaxEdits
    /\ nEdits' = nEdits + 1
    /\ updateProjection_headlamp(cam)
    /\ UNCHANGED <<lights, options, program, glProgram, uniforms, mView, panel, thrown, initialCamera, built, disc, console, mouse, angles, input, frame, shaderVars>>

H_SetFovy(v) == v # camera.fovy /\ CameraFieldEdited([camera EXCEPT !.fovy = v])

H_SetNear(v) == v # camera.near /\ CameraFieldEdited([camera EXCEPT !.near = v])

H_SetFar(v) == v # camera.far /\ CameraFieldEdited([camera EXCEPT !.far = v])

\* a handler that ends in uploadLights()
H_UploadLights(ls, opts, cam) ==
    /\ uniforms' = uploadLights_headlamp(ls, opts, cam, program, glProgram, uniforms).uniforms
    /\ thrown' = IF uploadLights_headlamp(ls, opts, cam, program, glProgram, uniforms).thrown
                 THEN thrown \cup {"uploadLights"} ELSE thrown

\* onCameraChanged(): updateView, then uploadLights in Camera mode
onCameraChanged(cam) ==
    /\ "camera" \in panel
    /\ nEdits < MaxEdits
    /\ nEdits' = nEdits + 1
    /\ camera' = cam
    /\ mView' = lookAt(cam.eye, cam.at, normalize(cam.up))
    /\ IF options.lightCoords = "Camera"
       THEN H_UploadLights(lights, options, cam)
       ELSE UNCHANGED <<uniforms, thrown>>
    /\ UNCHANGED <<lights, options, program, glProgram, mProjection, matrices, panel, initialCamera, built, disc, console, mouse, angles, input, frame, shaderVars>>

H_SetEye(c, v) == v # camera.eye[c] /\ onCameraChanged([camera EXCEPT !.eye[c] = v])

H_SetAt(c, v) == v # camera.at[c] /\ onCameraChanged([camera EXCEPT !.at[c] = v])

H_SetUp(c, v) == v # camera.up[c] /\ onCameraChanged([camera EXCEPT !.up[c] = v])

H_LightEdited(i, ls) ==
    /\ LightFolder(i) \in panel
    /\ nEdits < MaxEdits
    /\ nEdits' = nEdits + 1
    /\ lights' = ls
    /\ H_UploadLights(ls, options, camera)
    /\ UNCHANGED <<options, camera, program, glProgram, mProjection, mView, matrices, panel, initialCamera, built, disc, console, mouse, angles, input, frame, shaderVars>>

H_SetEnabled(i) == H_LightEdited(i, [lights EXCEPT ![i].enabled = ~ @])

H_SetType(i, t) ==
    /\ t # lights[i].type
    /\ H_LightEdited(i, [lights EXCEPT ![i].type = t,
                                       ![i].position[4] = IF t = 1 THEN 0 ELSE 1])

H_SetLightCoords(mode) ==
    /\ "options" \in panel
    /\ nEdits < MaxEdits
    /\ mode # options.lightCoords
    /\ nEdits' = nEdits + 1
    /\ options' = [options EXCEPT !.lightCoords = mode]
    /\ H_UploadLights(lights, options', camera)
    /\ UNCHANGED <<lights, camera, program, glProgram, mProjection, mView, matrices, panel, initialCamera, built, disc, console, mouse, angles, input, frame, shaderVars>>

HeadlampNext ==
    \/ \E v \in FovySliderValues_headlamp : H_SetFovy(v)
    \/ \E v \in NearSliderValues_headlamp : H_SetNear(v)
    \/ \E v \in FarSliderValues_headlamp : H_SetFar(v)
    \/ \E c \in 1..3, v \in EyeSliderValues : H_SetEye(c, v)
    \/ \E c \in 1..3, v \in AtSliderValues : H_SetAt(c, v)
    \/ \E c \in 1..3, v \in UpSliderValues : H_SetUp(c, v)
    \/ \E i \in DOMAIN lights : H_SetEnabled(i)
    \/ \E i \in DOMAIN lights, t \in {0, 1, 2} : H_SetType(i, t)
    \/ \E mode \in {"Camera", "World"} : H_SetLightCoords(mode)

SpecHeadlamp == HeadlampInit /\ [][HeadlampNext]_vars

----------------------------------------------------------------------------
(* The second copy of part_004 (lines 975-1819): camera and frame loop     *)

\* sceneObjects: platform, cube, torus, cylinder, bunny
NumObjects == 5

\* the keys of the model: forward and reset
Keys == {"KeyW", "KeyR"}

\* mouse movements between two mousemove events, in pixels
Drags == {<<180, 0>>, <<0, 180>>}

\* moveSpeed * dt, for frames half a second apart
StepLength == 1 * Unit

\* MV.js rotate(angle, axis) applied to v, for 0 <= angle <= 90 degrees
Rotate(v, axis, ang) ==
    Add3(Add3(Scale3(CosDeg(ang), v), Scale3(CosDeg(90 * Unit - ang), Cross(axis, v))),
         Scale3(Mul(Dot(axis, v), Unit - CosDeg(ang)), axis))

\* axisWorld of rotateCameraWithMouse: axisCam = (-dy, -dx, 0) in the basis
\* right, trueUp = cross(right, forward), forward
DragAxis(dx, dy, right, forward) ==
    normalize(Add3(Scale3((0 - dy) * Unit, right),
                   Scale3((0 - dx) * Unit, Cross(right, forward))))

\* the rotation of rotateCameraWithMouse turned into a rotation of at about
\* the eye
RotateCamera_AboutEye(cam, ang, axis) ==
    [cam EXCEPT !.at = Add3(cam.eye, Rotate(Sub3(cam.at, cam.eye), axis, ang)),
                !.up = Rotate(cam.up, axis, ang)]

\* the rotation of rotateCameraWithMouse, given its angle and axis
RotateCamera(cam, ang, axis) ==
    [cam EXCEPT !.eye = Add3(cam.at, Rotate(Sub3(cam.eye, cam.at), axis, ang)),
                !.up  = Rotate(cam.up, axis, ang)]

DragFrom(cam, dx, dy, forward) ==
    RotateCamera(cam, Div(ISqrt(dx * dx + dy * dy) * Unit, 2),
                 DragAxis(dx, dy, normalize(Cross(forward, normalize(cam.up))), forward))

rotateCameraWithMouse(cam, dx, dy) ==
    IF dx = 0 /\ dy = 0 THEN cam
    ELSE DragFrom(cam, dx, dy, normalize(Sub3(cam.at, cam.eye)))

\* forward = normalize(subtract(camera.at, camera.eye))
ForwardOf(cam) ==
    IF IsNaN(cam.eye) \/ IsNaN(cam.at) THEN NaN3 ELSE normalize(Sub3(cam.at, cam.eye))

\* right = normalize(cross(forward, worldUp)), worldUp = (0, 1, 0)
RightOf(forward) ==
    IF IsNaN(forward) THEN NaN3 ELSE normalize(Cross(forward, <<0, Unit, 0>>))

\* what one pair of opposite keys adds to move: + dir, - dir, or nothing
KeyPair(keys, plus, minus, dir) ==
    IF (plus \cap keys # {}) = (minus \cap keys # {})
    THEN (IF plus \cap keys # {} THEN Sub3(dir, dir) ELSE Zero3)
    ELSE IF plus \cap keys # {} THEN dir ELSE Neg(dir)

\* the sum of the directions of the keys held down; a direction that is NaN
\* makes the sum NaN as soon as one of its two keys is held
MoveSum(keys, forward, right) ==
    IF \/ IsNaN(forward) /\ {"KeyW", "KeyS"} \cap keys # {}
       \/ IsNaN(right) /\ {"KeyA", "KeyD"} \cap keys # {}
    THEN NaN3
    ELSE Add3(Add3(IF IsNaN(forward) THEN Zero3
                   ELSE KeyPair(keys, {"KeyW"}, {"KeyS"}, forward),
                   IF IsNaN(right) THEN Zero3
                   ELSE KeyPair(keys, {"KeyD"}, {"KeyA"}, right)),
              KeyPair(keys, {"Space"}, {"ShiftLeft", "ShiftRight"}, <<0, Unit, 0>>))

MoveOf(keys, forward) == MoveSum(keys, forward, RightOf(forward))

\* move = scale(moveSpeed * dt, normalize(move)), added to eye and to at
MoveBy(cam, move) ==
    IF move = Zero3 THEN cam
    ELSE IF IsNaN(move) \/ IsNaN(cam.eye) \/ IsNaN(cam.at)
         THEN [cam EXCEPT !.eye = NaN3, !.at = NaN3]
    ELSE [cam EXCEPT !.eye = Add3(@, Scale3(StepLength, normalize(move))),
                     !.at  = Add3(@, Scale3(StepLength, normalize(move)))]

\* updateCameraFromInput(dt); timed is "lastFrameTime is set", so dt > 0
updateCameraFromInput_IgnoresDt(cam, keys, timed) ==
    MoveBy(cam, MoveOf(keys, ForwardOf(cam)))

updateCameraFromInput(cam, keys, timed) ==
    IF ~ timed THEN cam
    ELSE MoveBy(cam, MoveOf(keys, ForwardOf(cam)))

\* `if (camera.eye[1] < 0.3) camera.eye[1] = 0.3;`
minEyeHeight == 30

ClampEye_Skipped(cam) == cam

ClampEye(cam) ==
    IF ~ IsNaN(cam.eye) /\ cam.eye[2] < minEyeHeight
    THEN [cam EXCEPT !.eye[2] = minEyeHeight]
    ELSE cam

\* updateCameraFromInput(dt) of the first copy: the same movement, written
\* into the existing arrays, then the clamp of the eye height; both returns
\* come before the clamp
updateCameraFromInput_headlamp(cam, keys, timed) ==
    IF ~ timed THEN cam
    ELSE IF MoveOf(keys, ForwardOf(cam)) = Zero3 THEN cam
    ELSE ClampEye(MoveBy(cam, MoveOf(keys, ForwardOf(cam))))

resetCamera_KeepsUp(cam, snapshot) ==
    [cam EXCEPT !.eye = snapshot.eye, !.at = snapshot.at]

resetCamera(cam, snapshot) ==
    [cam EXCEPT !.eye = snapshot.eye, !.at = snapshot.at, !.up = snapshot.up]

\* the view matrix uploadModelView multiplies the model matrix with
ViewForDraw_Stale(cam, view) == view

ViewForDraw(cam, view) == lookAt(cam.eye, cam.at, normalize(cam.up))

\* gl.useProgram(program)
useProgram_Skipped(prog, glProg) == glProg

useProgram(prog, glProg) == prog

requestAnimationFrame_Twice(pending) == pending + 2

requestAnimationFrame(pending) == pending + 1

\* computeInitialAngles() for the startup camera, the only camera it is
\* called with: forward = normalize((0, -6, -13)), yaw = atan2(f.z, f.x) =
\* -pi/2, pitch = asin(f.y) = -0.432
computeInitialAngles == [yaw |-> 0 - 1571, pitch |-> 0 - 432]

\* what the two calls of buildProgramFromSources can return: each either a
\* program or nothing
BuildOutcomes == SUBSET Programs

\* `if (!programPhong || !programGouraud) { console.error(...); return; }`
setupProceeds_PhongOnly(progs) == "phong" \in progs

setupProceeds(progs) == Programs \subseteq progs

\* setup() after a build that succeeded, up to its last statement, the call
\* render()
SetupDone ==
    /\ program   = "phong"
    /\ glProgram = "phong"
    /\ console   = {}
    /\ mProjection = Perspective(StartupCamera)
    /\ matrices  = UploadMatrix(NoMatrices, "phong", "phong", "projection",
                                 Perspective(StartupCamera))
    /\ mView     = lookAt(StartupCamera.eye, StartupCamera.at, normalize(StartupCamera.up))
    /\ frame     = [pc |-> "setup", pending |-> 0, timed |-> FALSE, k |-> 0]
    /\ angles    = computeInitialAngles

\* setup() after a build that failed: the message, then return; `program` is
\* never assigned, no program is made current, nothing else of setup runs
SetupFailed ==
    /\ program   = "none"
    /\ glProgram = "none"
    /\ console   = {"Failed to create shader programs"}
    /\ mProjection = NoProjection
    /\ matrices  = NoMatrices
    /\ mView     = <<>>
    /\ frame     = [pc |-> "failed", pending |-> 0, timed |-> FALSE, k |-> 0]
    /\ angles    = [yaw |-> 0, pitch |-> 0]

\* module top level, then setup()
CameraInit ==
    /\ lights    = [i \in LightIndices |-> DefaultLight(i)]
    /\ options   = [lightCoords |-> "Camera"]
    /\ camera    = StartupCamera
    /\ uniforms  = [p \in Programs |-> ZeroUniforms]
    /\ nEdits    = 0
    /\ panel     = {}
    /\ thrown    = {}
    /\ initialCamera = InitialCamera
    /\ input     = [keys |-> {}, bound |-> {"eye", "at", "up"}]
    /\ mouse     = NoMouse
    /\ built \in BuildOutcomes
    /\ disc = NoDisc
    /\ IF setupProceeds(built) THEN SetupDone ELSE SetupFailed
    /\ ShaderIdle

\* an event handler starts only when no other JavaScript is running
Idle == frame.pc = "idle"

KeyDown(k) ==
    /\ Idle
    /\ (k # "KeyR") => (k \notin input.keys)
    /\ input' = [input EXCEPT !.keys = @ \cup {k},
                              !.bound = IF k = "KeyR" THEN {} ELSE @]
    /\ camera' = IF k = "KeyR" THEN resetCamera(camera, initialCamera) ELSE camera
    /\ angles' = IF k = "KeyR" THEN computeInitialAngles ELSE angles
    /\ UNCHANGED <<lights, options, program, glProgram, uniforms, nEdits, mProjection,
                   mView, matrices, panel, thrown, initialCamera, built, disc, console, mouse,
                   frame, shaderVars>>

KeyUp(k) ==
    /\ Idle
    /\ k \in input.keys
    /\ input' = [input EXCEPT !.keys = @ \ {k}]
    /\ UNCHANGED <<appVars, mProjection, mView, matrices, panel, thrown,
                   initialCamera, built, disc, console, mouse, angles, frame, shaderVars>>

\* mousemove with the button down: camera.eye and camera.up become new arrays
MouseDrag(d) ==
    /\ Idle
    /\ nEdits < MaxEdits
    /\ nEdits' = nEdits + 1
    /\ camera' = rotateCameraWithMouse(camera, d[1], d[2])
    /\ input' = [input EXCEPT !.bound = @ \ {"eye", "up"}]
    /\ UNCHANGED <<lights, options, program, glProgram, uniforms, mProjection,
                   mView, matrices, panel, thrown, initialCamera, built, disc, console, mouse, angles, frame, shaderVars>>

\* an Eye, At or Up slider: it writes to the array it was given by setupGUI,
\* which is camera[f] only while that field has not been reassigned
SetCameraVector(f, c, v) ==
    /\ Idle
    /\ nEdits < MaxEdits
    /\ nEdits' = nEdits + 1
    /\ camera' = IF f \in input.bound THEN [camera EXCEPT ![f][c] = v] ELSE camera
    /\ mView' = lookAt(camera'.eye, camera'.at, normalize(camera'.up))
    /\ UNCHANGED <<lights, options, program, glProgram, uniforms, mProjection,
                   matrices, panel, thrown, initialCamera, built, disc, console, mouse, angles, input, frame, shaderVars>>

\* the near and far sliders: updateProjection, then uploadProjection
SetCameraField(f, v) ==
    /\ Idle
    /\ nEdits < MaxEdits
    /\ v # camera[f]
    /\ nEdits' = nEdits + 1
    /\ camera' = [camera EXCEPT ![f] = v]
    /\ mProjection' = Perspective(camera')
    /\ matrices' = UploadMatrix(matrices, program, glProgram, "projection", mProjection')
    /\ UNCHANGED <<lights, options, program, glProgram, uniforms, mView, panel,
                   thrown, initialCamera, built, disc, console, mouse, angles, input, frame, shaderVars>>

\* render() up to the loop over the objects: requestAnimationFrame(render),
\* updateCameraFromInput, gl.useProgram, uploadProjection, uploadLights
FrameBegin ==
    /\ \/ frame.pc = "setup"
       \/ Idle /\ frame.pending > 0
    /\ camera' = updateCameraFromInput(camera, input.keys, frame.timed)
    /\ (camera' # camera) => (nEdits < MaxEdits)
    /\ nEdits' = IF camera' # camera THEN nEdits + 1 ELSE nEdits
    /\ input' = IF camera' # camera THEN [input EXCEPT !.bound = @ \ {"eye", "at"}] ELSE input
    /\ frame' = [pc      |-> "draw",
                 pending |-> requestAnimationFrame(IF Idle THEN frame.pending - 1
                                                          ELSE frame.pending),
                 timed   |-> Idle,
                 k       |-> 1]
    /\ glProgram' = useProgram(program, glProgram)
    /\ matrices' = UploadMatrix(matrices, program, glProgram', "projection", mProjection)
    /\ uniforms' = uploadLights(lights, options, camera', program, glProgram', uniforms)
    /\ UNCHANGED <<lights, options, program, mProjection, mView, panel, thrown,
                   initialCamera, built, disc, console, mouse, angles, shaderVars>>

UploadForDraw(mats, k) ==
    UploadMatrix(UploadMatrix(mats, program, glProgram, "modelView",
                              [view |-> mView', object |-> k]),
                 program, glProgram, "material", k)

\* one round of the loop: uploadModelView, uploadMaterialUniforms, draw
DrawObject ==
    /\ frame.pc = "draw"
    /\ mView' = ViewForDraw(camera, mView)
    /\ matrices' = UploadForDraw(matrices, frame.k)
    /\ frame' = [frame EXCEPT !.k = @ + 1,
                              !.pc = IF frame.k = NumObjects THEN "overlay" ELSE "draw"]
    /\ UNCHANGED <<appVars, mProjection, panel, thrown, initialCamera, built, disc, console, mouse, angles, input, shaderVars>>

\* the spotlight circles, then render() returns; drawSpotlightCircle returns
\* at once for a light that is not an enabled spotlight, and no action of
\* this specification changes a light's type
DrawOverlay ==
    /\ frame.pc = "overlay"
    /\ ~ \E i \in LightIndices : lights[i].type = 2 /\ lights[i].enabled
    /\ frame' = [frame EXCEPT !.pc = "idle"]
    /\ UNCHANGED <<appVars, mProjection, mView, matrices, panel, thrown,
                   initialCamera, built, disc, console, mouse, angles, input, shaderVars>>

CameraNext ==
    \/ \E k \in Keys : KeyDown(k)
    \/ \E k \in Keys : KeyUp(k)
    \/ \E d \in Drags : MouseDrag(d)
    \/ \E c \in {1, 3} : SetCameraVector("eye", c, 5 * Unit)
    \/ SetCameraVector("at", 1, 0 - 5 * Unit)
    \/ SetCameraVector("up", 1, Unit)
    \/ SetCameraField("near", 5 * Unit)
    \/ SetCameraField("far", 10 * Unit)
    \/ \E val \in {"Phong", "Gouraud"} : Idle /\ SetShadingMode(val)
    \/ \E mode \in {"Camera", "World"} : Idle /\ SetLightCoords(mode)
    \/ FrameBegin
    \/ DrawObject
    \/ DrawOverlay

SpecCamera == CameraInit /\ [][CameraNext]_vars

-----------------------------------------------------------------------------
(* The second copy of part_004: free flight with opposite keys             *)

\* the keys of the free-flight model: forward, back, left, down
FlyKeys == {"KeyW", "KeyS", "KeyA", "ShiftLeft"}

\* the rest of render(): the loop over the objects and the spotlight
\* circles, which draw nothing while no light is an enabled spotlight
DrawAll ==
    /\ frame.pc = "draw" /\ frame.k = 1
    /\ ~ \E i \in LightIndices : lights[i].type = 2 /\ lights[i].enabled
    /\ mView' = ViewForDraw(camera, mView)
    /\ matrices' = UploadForDraw(matrices, NumObjects)
    /\ frame' = [frame EXCEPT !.k = NumObjects + 1, !.pc = "idle"]
    /\ UNCHANGED <<appVars, mProjection, panel, thrown, initialCamera, built, disc, console, mouse, angles,
                   input, shaderVars>>

FlyNext ==
    \/ \E k \in FlyKeys : KeyDown(k)
    \/ \E k \in FlyKeys : KeyUp(k)
    \/ SetCameraVector("eye", 3, 0)
    \/ FrameBegin
    \/ DrawAll

SpecFly == CameraInit /\ [][FlyNext]_vars

-----------------------------------------------------------------------------
(* The mouse handlers of initInputHandlers                                 *)

\* the mousedown handler: isMouseDown = true, lastMouseX/Y = the position
mousedown_KeepsLast(m, p) == [m EXCEPT !.down = TRUE]

mousedown(m, p) == [m EXCEPT !.down = TRUE, !.x = p[1], !.y = p[2]]

MouseDown(p) ==
    /\ Idle
    /\ mouse' = [mousedown(mouse, p) EXCEPT !.from = p, !.event = "down", !.button = "down"]
    /\ UNCHANGED <<appVars, mProjection, mView, matrices, panel, thrown, initialCamera,
                   built, disc, console, angles, input, frame, shaderVars>>

\* the mouseup handler: isMouseDown = false
MouseUp ==
    /\ Idle
    /\ mouse' = [mouse EXCEPT !.down = FALSE, !.event = "up", !.button = "up"]
    /\ UNCHANGED <<appVars, mProjection, mView, matrices, panel, thrown, initialCamera,
                   built, disc, console, angles, input, frame, shaderVars>>

\* the mousemove handler up to the use of dx and dy: nothing without the
\* button, else lastMouseX/Y = the position
mousemove(m, p) ==
    IF ~ m.down THEN [m EXCEPT !.event = "move"]
    ELSE [m EXCEPT !.x = p[1], !.y = p[2], !.from = p, !.event = "move"]

\* mousemove of part_004 (orbit): rotateCameraWithMouse(dx, dy)
MouseMove(p) ==
    /\ Idle
    /\ mouse' = mousemove(mouse, p)
    /\ camera' = IF mouse.down
                 THEN rotateCameraWithMouse(camera, p[1] - mouse.x, p[2] - mouse.y)
                 ELSE camera
    /\ (camera' # camera) => (nEdits < MaxEdits)
    /\ nEdits' = IF camera' # camera THEN nEdits + 1 ELSE nEdits
    /\ input' = IF mouse.down /\ p # <<mouse.x, mouse.y>>
                THEN [input EXCEPT !.bound = @ \ {"eye", "up"}] ELSE input
    /\ UNCHANGED <<lights, options, program, glProgram, uniforms, mProjection, mView,
                   matrices, panel, thrown, initialCamera, built, disc, console, angles,
                   frame, shaderVars>>

\* positions of the mouse events of the orbit model, in pixels
OrbitPoints == {<<0, 0>>, <<120, 0>>, <<0, 120>>}

MouseNext ==
    \/ \E p \in OrbitPoints : MouseDown(p)
    \/ MouseUp
    \/ \E p \in OrbitPoints : MouseMove(p)
    \/ FrameBegin
    \/ DrawAll

SpecMouse == CameraInit /\ [][MouseNext]_vars

-----------------------------------------------------------------------------
(* part_003: the mouse turns the view (yaw and pitch)                      *)

\* Math.cos of an angle in hundredths of a degree, any size
CosAny(d) ==
    IF d < 0 THEN 0 + (IF (0 - d) % 36000 > 18000
                                   THEN (IF 36000 - ((0 - d) % 36000) <= 9000
                                         THEN CosDeg(36000 - ((0 - d) % 36000))
                                         ELSE 0 - CosDeg(((0 - d) % 36000) - 18000))
                                   ELSE (IF (0 - d) % 36000 <= 9000
                                         THEN CosDeg((0 - d) % 36000)
                                         ELSE 0 - CosDeg(18000 - ((0 - d) % 36000))))
    ELSE IF d % 36000 > 18000
         THEN (IF 36000 - (d % 36000) <= 9000
               THEN CosDeg(36000 - (d % 36000))
               ELSE 0 - CosDeg((d % 36000) - 18000))
         ELSE (IF d % 36000 <= 9000
               THEN CosDeg(d % 36000)
               ELSE 0 - CosDeg(18000 - (d % 36000)))

\* Math.cos and Math.sin of an angle in thousandths of a radian
CosRad(a) == CosAny(Div(a * 18000, 3142))

SinRad(a) == CosAny(Div(a * 18000, 3142) - 9000)

\* `const maxPitch = Math.PI / 2 - 0.01;`
maxPitch == 1560

ClampPitch_OneSided(pitch) == IF pitch > maxPitch THEN maxPitch ELSE pitch

ClampPitch(pitch) ==
    IF pitch > maxPitch THEN maxPitch
    ELSE IF pitch < 0 - maxPitch THEN 0 - maxPitch
    ELSE pitch

\* forward of updateCameraFromAngles
forwardFromAngles(a) ==
    <<Mul(CosRad(a.pitch), CosRad(a.yaw)), SinRad(a.pitch),
      Mul(CosRad(a.pitch), SinRad(a.yaw))>>

\* updateCameraFromAngles(): camera.at = add(camera.eye, forward)
updateCameraFromAngles(cam, a) ==
    IF IsNaN(cam.eye) THEN [cam EXCEPT !.at = NaN3]
    ELSE [cam EXCEPT !.at = Add3(cam.eye, forwardFromAngles(a))]

\* yaw += dx * mouseSensitivity; pitch -= dy * mouseSensitivity, clamped;
\* mouseSensitivity is 0.001 radian per pixel
TurnBy(a, dx, dy) == [yaw |-> a.yaw + dx, pitch |-> ClampPitch(a.pitch - dy)]

\* mousemove of part_003 (look)
MouseMove_look(p) ==
    /\ Idle
    /\ mouse' = mousemove(mouse, p)
    /\ mouse.down => (nEdits < MaxEdits)
    /\ nEdits' = IF mouse.down THEN nEdits + 1 ELSE nEdits
    /\ angles' = IF mouse.down THEN TurnBy(angles, p[1] - mouse.x, p[2] - mouse.y)
                 ELSE angles
    /\ camera' = IF mouse.down THEN updateCameraFromAngles(camera, angles') ELSE camera
    /\ input' = IF mouse.down THEN [input EXCEPT !.bound = @ \ {"at"}] ELSE input
    /\ UNCHANGED <<lights, options, program, glProgram, uniforms, mProjection, mView,
                   matrices, panel, thrown, initialCamera, built, disc, console,
                   frame, shaderVars>>

\* positions of the mouse events of the look model, in pixels
LookPoints == {<<0, 0>>, <<2000, 0>>, <<0, 2000>>}

\* the keys of the look model: forward and reset
LookKeys == {"KeyW", "KeyR"}

LookNext ==
    \/ \E p \in LookPoints : MouseDown(p)
    \/ MouseUp
    \/ \E p \in LookPoints : MouseMove_look(p)
    \/ \E k \in LookKeys : KeyDown(k)
    \/ \E k \in LookKeys : KeyUp(k)
    \/ FrameBegin
    \/ DrawAll

\* part_003 has one program; its setup and render make the same calls as
\* those of the second copy of part_004 for everything the camera touches
LookInit == CameraInit /\ built = Programs

SpecLook == LookInit /\ [][LookNext]_vars

-----------------------------------------------------------------------------
(* The second copy of part_004: the spotlight circles of render            *)

\* computeCameraBasis(): right, the true up and forward, in world space
BasisOf(f, s) == [right |-> s, up |-> Cross(s, f), forward |-> f]

computeCameraBasis(cam) ==
    BasisOf(normalize(Sub3(cam.at, cam.eye)),
            normalize(Cross(normalize(Sub3(cam.at, cam.eye)), normalize(cam.up))))

\* x * right + y * up - z * forward
FromBasis(v, basis) ==
    IF IsNaN(v) THEN NaN3
    ELSE Add3(Add3(Scale3(v[1], basis.right), Scale3(v[2], basis.up)),
              Scale3(0 - v[3], basis.forward))

getLightWorldSpace(light, opts, cam) ==
    IF opts.lightCoords = "World"
    THEN [posWorld  |-> Xyz(light.position),
          axisWorld |-> normalize(light.axis)]
    ELSE [posWorld  |-> Add3(cam.eye, FromBasis(Xyz(light.position), computeCameraBasis(cam))),
          axisWorld |-> normalize(FromBasis(light.axis, computeCameraBasis(cam)))]

\* where the ray from pos along dir meets the plane y = 0: x and z of
\* groundPos, for pos above the plane and dir going down
GroundPos(pos, dir) ==
    <<pos[1] + Div(dir[1] * pos[2], 0 - dir[2]),
      pos[3] + Div(dir[3] * pos[2], 0 - dir[2])>>

\* the test `lightPosWorld[1] > 0 && lightDirWorld[1] < 0.0` and the circle
\* it guards; a comparison with NaN is false
CircleAlong(pos, dir) ==
    IF IsNaN(dir) THEN {}
    ELSE IF pos[2] > 0 /\ dir[2] < 0 THEN {GroundPos(pos, dir)}
    ELSE {}

\* lightDirWorld of the first copy: normalize(axisWorld)
lightDirWorld_AlongAxis(axisWorld) == normalize(axisWorld)

\* lightDirWorld = normalize(-axisWorld)
lightDirWorld(axisWorld) ==
    IF IsNaN(axisWorld) THEN NaN3 ELSE normalize(Neg(axisWorld))

\* drawSpotlightCircle(gl, light): the centres of the circles it draws
CircleOf(light, lw) ==
    IF light.type # 2 \/ ~ light.enabled THEN {}
    ELSE CircleAlong(lw.posWorld, lightDirWorld(lw.axisWorld))

drawSpotlightCircle(light, opts, cam) ==
    CircleOf(light, getLightWorldSpace(light, opts, cam))

\* render() with nothing to move: gl.useProgram(program), uploadLights(),
\* the objects, then drawSpotlightCircle for every light
RenderFrame ==
    /\ glProgram' = program
    /\ uniforms' = uploadLights(lights, options, camera, program, program, uniforms)
    /\ disc' = [seen    |-> <<lights, options>>,
                centres |-> [i \in LightIndices |->
                               drawSpotlightCircle(lights[i], options, camera)]]
    /\ UNCHANGED <<lights, options, camera, program, nEdits, shaderVars,
                   mProjection, mView, matrices, panel, thrown, initialCamera,
                   built, console, mouse, angles, input, frame>>

\* the lights of the overlay model: the first two of the panel
OverlayLights == {0, 1}

OverlayNext ==
    \/ \E i \in OverlayLights : SetEnabled(i)
    \/ \E i \in OverlayLights, t \in {0, 2} : SetType(i, t)
    \/ \E i \in OverlayLights, v \in {0 - 5 * Unit, 5 * Unit} : SetPosition(i, 2, v)
    \/ \E i \in OverlayLights, c \in {2, 3}, v \in AxisSliderValues : SetAxis(i, c, v)
    \/ \E mode \in {"Camera", "World"} : SetLightCoords(mode)
    \/ RenderFrame

SpecOverlay == Init /\ [][OverlayNext]_vars

-----------------------------------------------------------------------------
(* The first copy of part_004: updateCameraFromInput on its own            *)

\* keyState: every key the function reads
KeyStates == SUBSET {"KeyW", "KeyS", "KeyA", "KeyD", "Space", "ShiftLeft", "ShiftRight"}

\* the startup camera, and the same camera with the Eye y slider at 0.5
FlyCameras == {StartupCamera, [StartupCamera EXCEPT !.eye[2] = 50]}

\* a call updateCameraFromInput(dt) about to be made, for every key state,
\* for dt = 0 and dt > 0; the panel is the one setupGUI has left
FlyCall ==
    /\ lights    = HeadlampLights
    /\ options   = [lightCoords |-> "Camera"]
    /\ camera    \in FlyCameras
    /\ program   = "phong"
    /\ glProgram = "phong"
    /\ uniforms  = [p \in Programs |-> ZeroUniforms]
    /\ nEdits    = 0
    /\ panel     = setupGUI_headlamp(HeadlampLights).panel
    /\ thrown    = IF setupGUI_headlamp(HeadlampLights).thrown THEN {"setupGUI"} ELSE {}
    /\ mProjection = NoProjection
    /\ mView     = <<>>
    /\ matrices  = NoMatrices
    /\ initialCamera = InitialCamera
    /\ built     = Programs
    /\ disc      = NoDisc
    /\ console   = {}
    /\ mouse     = NoMouse
    /\ angles    = [yaw |-> 0, pitch |-> 0]
    /\ input     \in [keys : KeyStates, bound : {{"eye", "at", "up"}}]
    /\ frame     \in [pc : {"call"}, pending : {0}, timed : BOOLEAN, k : {0}]
    /\ ShaderIdle

\* updateCameraFromInput(dt): the two early returns, else the movement, the
\* clamp, and onCameraChanged() (updateView, uploadLights in Camera mode)
FreeFly_headlamp ==
    /\ frame.pc = "call"
    /\ frame' = [frame EXCEPT !.pc = "returned"]
    /\ camera' = updateCameraFromInput_headlamp(camera, input.keys, frame.timed)
    /\ IF ~ frame.timed \/ MoveOf(input.keys, ForwardOf(camera)) = Zero3
       THEN UNCHANGED <<mView, uniforms, thrown>>
       ELSE /\ mView' = lookAt(camera'.eye, camera'.at, normalize(camera'.up))
            /\ IF options.lightCoords = "Camera"
               THEN H_UploadLights(lights, options, camera')
               ELSE UNCHANGED <<uniforms, thrown>>
    /\ UNCHANGED <<lights, options, program, glProgram, nEdits, mProjection, matrices,
                   panel, initialCamera, built, disc, console, mouse, angles, input, shaderVars>>

SpecFlyHeadlamp == FlyCall /\ [][FreeFly_headlamp]_vars

\* C14: the projection matrix in use was built with 0 < near < far, after
\* any sequence of panel edits of fovy, near and far.
C14_ProjectionNearBelowFar ==
    mProjection.built => (0 < mProjection.near /\ mProjection.near < mProjection.far)

\* near was moved above far and updateProjection pulled it back below
C14_Witness ==
    /\ mProjection.built
    /\ mProjection.far = 5 * Unit
    /\ mProjection.near = 5 * Unit - 1
    /\ camera.near = mProjection.near
    /\ matrices[glProgram].projection = mProjection

\* C15: the lights array holds a record at every index 0..MAX_LIGHTS-1 for
\* the whole run, and no loop over these indices fails to find one.
C15_EveryIndexHasALight ==
    /\ DOMAIN lights = LightIndices
    /\ thrown = {}

\* C16: resetCamera (key R) leaves camera.eye, camera.at and camera.up equal
\* to their startup values, whatever drags, free-fly steps and panel edits
\* came before, and no operation modifies the startup snapshot.
C16_ResetRestoresStartupCamera ==
    [][/\ ("KeyR" \notin input.keys /\ "KeyR" \in input'.keys) =>
            /\ camera'.eye = StartupCamera.eye
            /\ camera'.at = StartupCamera.at
            /\ camera'.up = StartupCamera.up
       /\ initialCamera = InitialCamera
       /\ initialCamera' = initialCamera]_vars

\* R is held right after a reset of a camera that had been moved: the view
\* matrix of the moved camera is still in mView
C16_Witness ==
    /\ "KeyR" \in input.keys
    /\ input.bound = {}
    /\ camera.eye = StartupCamera.eye /\ camera.at = StartupCamera.at
    /\ camera.up = StartupCamera.up
    /\ mView # lookAt(StartupCamera.eye, StartupCamera.at, normalize(StartupCamera.up))
    /\ nEdits > 0

\* the light uniforms of the program in use are those of the current
\* lights, light space and camera
LightsUploaded(prog) ==
    /\ uniforms[prog].n_lights = CountLights(lights, 0, 0)
    /\ \A i \in 0 .. (ArraySize(prog) - 1) :
          uniforms[prog].light[i] = LightUniforms(lights[i], options, camera)

\* an object of the current frame has been drawn
Drawing == frame.pc \in {"draw", "overlay"} /\ frame.k > 1

\* C17: the model-view matrix uploaded for each drawable is built from the
\* view matrix of the camera's current eye/at/up, and the light uniforms of
\* the same frame are derived from that camera and the current light space.
C17_DrawsUseCurrentCamera ==
    Drawing =>
        /\ matrices[glProgram].modelView
             = [view   |-> lookAt(camera.eye, camera.at, normalize(camera.up)),
                object |-> frame.k - 1]
        /\ LightsUploaded(glProgram)

\* a frame drawn in World light space after a mouse drag, which changes the
\* camera without calling updateView or uploadLights
C17_Witness ==
    /\ Drawing
    /\ options.lightCoords = "World"
    /\ "up" \notin input.bound /\ "KeyR" \notin input.keys
    /\ camera.up # StartupCamera.up
    /\ matrices[glProgram].modelView.view
         = lookAt(camera.eye, camera.at, normalize(camera.up))

\* C18: exactly one stage evaluates the light model: either the vertex stage
\* computes the colour and the fragment stage passes it through, or the
\* fragment stage computes it and the vertex stage's colour is not used.
C18_ExactlyOneStageLights ==
    Shaded =>
        /\ varyings.lit # fragColor.lit
        /\ varyings.lit => (fragColor.rgb = Clamp01(varyings.v_color))
        /\ fragColor.lit => (varyings.v_color = Zero3)

C18_Witness ==
    /\ Shaded
    /\ shader = "combined" /\ u.shadingMode = 0
    /\ varyings.lit /\ ~ fragColor.lit
    /\ fragColor.rgb # Zero3
    /\ fragColor.rgb = Clamp01(varyings.v_color)

\* C19: every frame after a toggle of the shading mode is drawn with the
\* selected program, and its projection, light, model-view and material
\* uniforms have been uploaded to that program before the draw.
C19_FrameUsesSelectedProgram ==
    (frame.pc \in {"draw", "overlay"}) =>
        /\ glProgram = program
        /\ mProjection.built /\ matrices[program].projection = mProjection
        /\ LightsUploaded(program)
        /\ (frame.k > 1) =>
              /\ matrices[program].modelView.object = frame.k - 1
              /\ matrices[program].material = frame.k - 1

\* the first object of a frame after the switch to Gouraud has been drawn
C19_Witness ==
    /\ frame.pc = "draw" /\ frame.k = 2
    /\ program = "gouraud" /\ glProgram = "gouraud"
    /\ matrices["gouraud"].material = 1
    /\ matrices["gouraud"].projection = mProjection
    /\ uniforms["gouraud"].n_lights = 1

\* C20 as stated: a frame callback is pending only when no frame update is
\* running, each update being complete before the next callback is scheduled.
C20_ScheduledAfterCompletion ==
    (frame.pending > 0) => Idle

\* C20: render requests the next callback as its first statement, so one
\* callback is pending while the frame update runs; never more than one is
\* pending, and a callback starts only when no update is running.
C20_OnePendingCallback ==
    /\ frame.pending <= 1
    /\ (frame.pc \in {"draw", "overlay"}) => (frame.pending = 1)
    /\ Idle => (frame.pending = 1)

\* a frame started by a scheduled callback is being drawn
C20_Witness ==
    /\ frame.pc = "draw"
    /\ frame.timed
    /\ frame.pending = 1
    /\ frame.k > 1

\* C21: when buildProgramFromSources returns no program for a required
\* shader pair, setup reports it and returns: no frame is drawn, no callback
\* is requested and no uniform is uploaded, the program being null.
C21_NoFrameWithoutPrograms ==
    (built # Programs) =>
        /\ console # {}
        /\ frame = [pc |-> "failed", pending |-> 0, timed |-> FALSE, k |-> 0]
        /\ program = "none" /\ glProgram = "none"
        /\ uniforms = [p \in Programs |-> ZeroUniforms]
        /\ matrices = NoMatrices
        /\ ~ mProjection.built
        /\ camera = StartupCamera /\ input.keys = {}

\* the Gouraud pair built, the Phong pair did not
C21_Witness ==
    /\ built = {"gouraud"}
    /\ frame.pc = "failed"
    /\ "Failed to create shader programs" \in console

\* a call of updateCameraFromInput returns
FlyReturns == frame.pc = "call" /\ frame'.pc = "returned"

FrameStarts == frame.pc # "draw" /\ frame'.pc = "draw"

\* C30: a frame's free-fly update leaves camera.eye and camera.at unchanged
\* when dt <= 0, when no movement key is held and when the held keys add up
\* to no movement; the render call made by setup and the frame after it
\* both have dt = 0.
C30_NoMoveWithoutTimeOrKeys ==
    [][FrameStarts =>
          /\ (\/ ~ frame.timed
               \/ input.keys \cap FlyKeys = {}
               \/ MoveOf(input.keys, ForwardOf(camera)) = Zero3)
                 => (camera'.eye = camera.eye /\ camera'.at = camera.at)
          /\ (frame.pc = "setup") => (~ frame.timed /\ ~ frame'.timed)
          /\ (~ frame.timed) => (camera' = camera)]_vars

\* W and S are held together in a frame with dt > 0 that has left the
\* camera where a forward step had put it
C30_Witness ==
    /\ frame.pc = "draw" /\ frame.timed
    /\ {"KeyW", "KeyS"} \subseteq input.keys
    /\ nEdits = 1
    /\ camera = MoveBy(StartupCamera, ForwardOf(StartupCamera))

\* a mousemove event is handled
MoveEvent == mouse'.event = "move" /\ mouse' # mouse

\* C23: an orbit drag changes only camera.eye and camera.up: camera.at,
\* fovy, near, far, the lights and the light space are the same after it,
\* for every drag delta.
C23_OrbitKeepsAt ==
    [][(MoveEvent /\ mouse.down) =>
          /\ camera'.at = camera.at
          /\ camera'.fovy = camera.fovy
          /\ camera'.near = camera.near /\ camera'.far = camera.far
          /\ lights' = lights /\ options' = options]_vars

\* a second drag has turned the camera, at being where it was at startup
C23_Witness ==
    /\ mouse.down /\ mouse.event = "move"
    /\ nEdits = 2
    /\ camera.at = StartupCamera.at
    /\ camera.eye # StartupCamera.eye /\ camera.up # StartupCamera.up

\* C29: a mousemove changes the camera only during a drag, that is when the
\* latest of the mousedown and mouseup events is a mousedown, and the delta
\* it applies is measured from the previous mouse event of the same drag.
C29_MoveOnlyDuringDrag ==
    [][MoveEvent =>
          /\ (~ mouse.down) => (camera' = camera /\ angles' = angles)
          /\ mouse.down =>
                camera' = rotateCameraWithMouse(camera, mouse'.from[1] - mouse.from[1],
                                                mouse'.from[2] - mouse.from[2])
          /\ mouse.down = (mouse.button = "down")
          /\ mouse.down => (mouse.from = <<mouse.x, mouse.y>>)]_vars

\* the first move of a drag that began at another place than the one the
\* drag before it ended at
C29_Witness ==
    /\ mouse.down /\ mouse.event = "move"
    /\ nEdits = 2
    /\ mouse.from = <<0, 0>>
    /\ camera.eye # StartupCamera.eye

\* a mousemove of the look variant is handled with the button down
LookDrag == MoveEvent /\ mouse.down

\* C24: in the look variant the pitch stays within plus or minus
\* (pi/2 - 0.01), and after every mouse drag event camera.at is
\* camera.eye + forward(yaw, pitch), whatever drags, free-fly steps and
\* resets came before.
C24_PitchClampedAtFollowsAngles ==
    [][/\ 0 - maxPitch <= angles.pitch /\ angles.pitch <= maxPitch
       /\ 0 - maxPitch <= angles'.pitch /\ angles'.pitch <= maxPitch
       /\ LookDrag => (camera'.at = Add3(camera'.eye, forwardFromAngles(angles')))]_vars

\* a drag has pushed the pitch down to its limit after a forward step
C24_Witness ==
    /\ mouse.down /\ mouse.event = "move"
    /\ angles.pitch = 0 - maxPitch
    /\ camera.eye # StartupCamera.eye
    /\ camera.at = Add3(camera.eye, forwardFromAngles(angles))

\* a callback of the lights or options folder has run
LightPanelEdit == lights' # lights \/ options' # options

\* C25: in Camera mode of the first copy every Spotlight is uploaded with
\* eye-space position (0,0,0) and axis (0,0,-1) whatever its sliders hold,
\* and every Point and Directional light with its slider values.
C25_SpotlightsUploadedFromCamera ==
    [][(LightPanelEdit /\ options'.lightCoords = "Camera") =>
          \A i \in DOMAIN lights' :
             /\ uniforms'[program].light[i].type = lights'[i].type
             /\ (lights'[i].type = 2) =>
                   /\ Xyz(uniforms'[program].light[i].position) = Zero3
                   /\ uniforms'[program].light[i].axis = <<0, 0, 0 - Unit>>
             /\ (lights'[i].type # 2) =>
                   /\ Xyz(uniforms'[program].light[i].position) = Xyz(lights'[i].position)
                   /\ uniforms'[program].light[i].axis = lights'[i].axis]_vars

\* C26: whenever a panel callback uploads uniforms, the program variable it
\* looks the locations up in is the program bound by the latest
\* gl.useProgram, so the write goes to the bound program, in every
\* interleaving of shading-mode changes, panel edits and frames.
C26_CallbackWritesToBoundProgram ==
    [][LightPanelEdit => (program = glProgram)]_vars

\* C27: the lights the panel has no folder for, 3..7, are disabled in every
\* reachable state, so the count uploadLights computes and u_n_lights of
\* every program are between 0 and 3, the size of the light arrays of
\* gouraud.vert and phong.vert.
C27_HiddenLightsStayDisabled ==
    /\ \A i \in GuiLights .. (MAX_LIGHTS - 1) : ~ lights[i].enabled
    /\ CountLights(lights, 0, 0) \in 0 .. MAX_LIGHTS_gouraud_vert
    /\ \A p \in Programs : uniforms[p].n_lights \in 0 .. MAX_LIGHTS_gouraud_vert

\* the last light of the panel is enabled and counted: u_n_lights is 3
C27_Witness ==
    /\ lights[GuiLights - 1].enabled
    /\ uniforms[glProgram].n_lights = MAX_LIGHTS_gouraud_vert

\* the narrowest cone the two decimal digits of the model's arithmetic tell
\* from its axis, in hundredths of a degree
WideAperture == 30 * Unit

\* the spotlight of `light` seen in world space lights the ground point g:
\* phongLighting's cone test on the light's world position and axis, for a
\* cone of WideAperture
ConeLights(light, lw, g) ==
    SpotAttenuation_phong_frag([light EXCEPT !.position = WithW(lw.posWorld, 1),
                                             !.axis = lw.axisWorld,
                                             !.aperture = WideAperture,
                                             !.cutoff = 1],
                               <<g[1], 0, g[2]>>) > 0

\* the axis of the spotlight goes down from a position above the ground
ConeMeetsGround(light, lw) ==
    /\ light.type = 2 /\ light.enabled
    /\ ~ IsNaN(lw.axisWorld)
    /\ lw.posWorld[2] > 0 /\ normalize(lw.axisWorld)[2] < 0

\* what C28 says of one light and the circles the latest frame drew for it
FootprintAsClaimed(light, lw, centres) ==
    /\ (centres # {}) => (light.type = 2 /\ light.enabled /\ lw.posWorld[2] > 0)
    /\ \A g \in centres : ConeLights(light, lw, g)
    /\ ConeMeetsGround(light, lw) => (centres = {GroundPos(lw.posWorld, normalize(lw.axisWorld))})

\* C28: a frame draws a circle only for an enabled Spotlight above the
\* ground whose emission goes down, and it is centred where the cone of
\* phongLighting meets y = 0: the centre is lit by the cone, and a spotlight
\* whose axis goes down to the ground has its circle there.
C28_DiscWhereConeLights ==
    (disc.seen = <<lights, options>>) =>
        \A i \in LightIndices :
            FootprintAsClaimed(lights[i], getLightWorldSpace(lights[i], options, camera),
                               disc.centres[i])

====
